---- MODULE Spec2Model ----
(***************************************************************************)
(* A model of the ZOV configuration language (olegnekifir/zov-lang):       *)
(*   - the include resolution of the recursive-descent parser              *)
(*     (src/zov/parser.py, src/zov/__init__.py),                           *)
(*   - the interpreter's evaluation pass (src/zov/interpreter.py).         *)
(*                                                                         *)
(* Text (file names, paths, string values) is a sequence of one-character  *)
(* strings, so that prefix tests, joins and renderings are computed on     *)
(* characters as the code computes them.                                   *)
(***************************************************************************)
EXTENDS Integers, Sequences, FiniteSets, TLC

VARIABLES
    files,      \* the file system: absolute path -> statements of the file
    links,      \* the file system: path of a symbolic link -> the directory it names
    stack,      \* the parser's call stack: parse() / parse_category() frames
    result,     \* the ZovDocument returned by parse_file, or NoDoc
    perr,       \* the exception that left parse_file, or NoError
    probed,     \* the paths handed to os.path.exists
    opened,     \* the paths handed to open(), in order
    lexed,      \* the paths whose text was handed to lex(), in order
    doc,        \* the ZovDocument handed to ZovInterpreter.eval
    use_decimal,\* ZovInterpreter.use_decimal
    istack,     \* the interpreter's call stack: the running eval() calls
    data,       \* ZovInterpreter.data: path -> items and subcategory names
    variables,  \* ZovInterpreter.variables: name -> value
    ierr,       \* the exception that left eval, or NoError
    environ,    \* os.environ: the name -> text of the process environment
    istate,     \* "idle" before eval is called, "running", "done" once it returned
    source,     \* the text handed to lex()
    lpos,       \* the position in source where the next match of lex() starts
    ltokens,    \* the tokens lex() has yielded so far
    lerr,       \* the exception that left lex() or parse_expression(), or NoError
    lexpr,      \* the node parse_expression() returned, or NoExpr
    out,        \* the dict to_dict() is building: key -> list or dict
    assembled,  \* the paths of data that to_dict() has merged into out, in order
    oerr,       \* the exception that left to_dict(), or NoError
    ostate      \* "idle" before to_dict is called, "assembling", "done" once it returned

pvars == <<files, links, stack, result, perr, probed, opened, lexed>>
ivars == <<doc, use_decimal, istack, data, variables, ierr, environ, istate>>
lvars == <<source, lpos, ltokens, lerr, lexpr>>
ovars == <<out, assembled, oerr, ostate>>
vars == <<pvars, ivars, lvars, ovars>>

----------------------------------------------------------------------------
(* Text helpers *)

startswith(s, p) == Len(p) <= Len(s) /\ SubSeq(s, 1, Len(p)) = p

endswith(s, p) == Len(p) <= Len(s) /\ SubSeq(s, Len(s) - Len(p) + 1, Len(s)) = p

sep == <<"/">>

\* str.split('/'): the pieces between separators, empty pieces kept
split[s \in Seq(STRING)] ==
    IF \A i \in 1..Len(s) : s[i] # "/" THEN <<s>>
    ELSE LET i == CHOOSE k \in 1..Len(s) :
                      s[k] = "/" /\ \A j \in 1..(k-1) : s[j] # "/"
         IN <<SubSeq(s, 1, i - 1)>> \o split[SubSeq(s, i + 1, Len(s))]

\* '/'.join(comps)
joinsep[comps \in Seq(Seq(STRING))] ==
    IF comps = <<>> THEN <<>>
    ELSE IF Len(comps) = 1 THEN comps[1]
    ELSE comps[1] \o sep \o joinsep[Tail(comps)]

\* posixpath.join(a, b)
path_join(a, b) ==
    IF startswith(b, sep) THEN b
    ELSE IF a = <<>> \/ endswith(a, sep) THEN a \o b
    ELSE a \o sep \o b

\* the component loop of posixpath.normpath
norm_comps[comps \in Seq(Seq(STRING)), new_comps \in Seq(Seq(STRING)), initial_slashes \in Nat] ==
    IF comps = <<>> THEN new_comps
    ELSE LET comp == Head(comps)
             rest == Tail(comps)
         IN IF comp = <<>> \/ comp = <<".">> THEN
                norm_comps[rest, new_comps, initial_slashes]
            ELSE IF comp # <<".", ".">>
                    \/ (initial_slashes = 0 /\ new_comps = <<>>)
                    \/ (new_comps # <<>> /\ new_comps[Len(new_comps)] = <<".", ".">>) THEN
                norm_comps[rest, Append(new_comps, comp), initial_slashes]
            ELSE IF new_comps # <<>> THEN
                norm_comps[rest, SubSeq(new_comps, 1, Len(new_comps) - 1), initial_slashes]
            ELSE
                norm_comps[rest, new_comps, initial_slashes]

\* posixpath.normpath(path)
normpath(path) ==
    IF path = <<>> THEN <<".">>
    ELSE LET initial_slashes ==
                 IF ~startswith(path, sep) THEN 0
                 ELSE IF startswith(path, sep \o sep) /\ ~startswith(path, sep \o sep \o sep)
                      THEN 2 ELSE 1
             body == joinsep[norm_comps[split[path], <<>>, initial_slashes]]
             lead == IF initial_slashes = 2 THEN sep \o sep
                     ELSE IF initial_slashes = 1 THEN sep ELSE <<>>
             p == lead \o body
         IN IF p = <<>> THEN <<".">> ELSE p

\* the working directory of the process, used by abspath for a relative path
cwd == <<"/", "r">>

\* posixpath.abspath(path)
abspath(path) ==
    IF startswith(path, sep) THEN normpath(path) ELSE normpath(path_join(cwd, path))

\* str.rstrip('/')
RECURSIVE rstrip_sep(_)
rstrip_sep(s) ==
    IF s # <<>> /\ s[Len(s)] = "/" THEN rstrip_sep(SubSeq(s, 1, Len(s) - 1)) ELSE s

\* posixpath.dirname(p)
dirname(p) ==
    LET slashes == {k \in 1..Len(p) : p[k] = "/"}
        i == IF slashes = {} THEN 0 ELSE CHOOSE k \in slashes : \A j \in slashes : j <= k
        head == SubSeq(p, 1, i)
    IN IF head # <<>> /\ \E k \in 1..Len(head) : head[k] # "/" THEN rstrip_sep(head) ELSE head

----------------------------------------------------------------------------
(* The files of one run.  A file is the sequence of its statements as the  *)
(* token stream presents them to parse() and parse_category():             *)
(*   VARIABLE  '$name = value;'        INCLUDE  'include "filename";'      *)
(*   ITEM      'name = value;'         CATEGORY 'name { statements }'      *)

fA == <<"/", "r", "/", "a">>
fB == <<"/", "r", "/", "b">>
fC == <<"/", "r", "/", "s", "/", "c">>
fD == <<"/", "r", "s", "/", "d">>

FilePaths == {fA, fB, fC, fD}

Directories == {<<"/">>, <<"/", "r">>, <<"/", "r", "/", "s">>, <<"/", "r", "s">>}

\* the one-letter tag of a file, carried by the values of its statements
Tag(f) == f[Len(f)]

\* the include file names the statements draw from
Filenames ==
    { <<"b">>,                              \* a sibling file
      <<"a">>,                              \* the root itself
      <<"c">>,
      <<"s", "/", "c">>,                    \* a file of a subdirectory
      <<".", ".", "/", "a">>,               \* leaves the directory
      <<".", ".", "/", "r", "s", "/", "d">>,\* a sibling directory sharing the prefix
      <<"x">>,                              \* no such file
      <<".">> }                             \* the directory itself

TokVariable(name, v) == [t |-> "VARIABLE", name |-> name, value |-> v]
TokItem(name, v)     == [t |-> "ITEM", name |-> name, value |-> v]
TokInclude(fn)       == [t |-> "INCLUDE", filename |-> fn]
TokCategory(name, b) == [t |-> "CATEGORY", name |-> name, body |-> b]

\* the texts a file may hold
Contents(f) ==
    LET g == Tag(f) IN
    { <<TokVariable("$only", g)>>,
      <<TokItem("stray", g)>> }
    \cup { <<TokVariable("$pre", g), TokInclude(fn), TokVariable("$post", g)>> : fn \in Filenames }
    \cup { <<TokCategory("k", <<TokItem("first", g), TokInclude(fn), TokItem("last", g)>>)>> :
             fn \in Filenames }
    \cup { <<TokInclude(fn), TokCategory("k", <<TokInclude(fn)>>), TokVariable("$post", g)>> :
             fn \in Filenames }

\* the number of symbolic links the system follows while it resolves one
\* path; it gives up on the path (ELOOP) when more are needed
SymlinkLimit == 5

\* the path the system resolves `path` to, as os.path.exists and open do:
\* the leftmost component that is a symbolic link is replaced by its target
resolve[path \in Seq(STRING), followed \in Nat] ==
    LET hits == {l \in DOMAIN links : path = l \/ startswith(path, l \o sep)}
    IN IF hits = {} THEN [ok |-> TRUE, path |-> path]
       ELSE IF followed = SymlinkLimit THEN [ok |-> FALSE, path |-> path]
       ELSE LET l == CHOOSE h \in hits : \A g \in hits : Len(h) <= Len(g)
            IN resolve[links[l] \o SubSeq(path, Len(l) + 1, Len(path)), followed + 1]

\* the file or directory that open(path) reaches
reached(path) == resolve[path, 0].path

\* os.path.exists(path)
exists(path) ==
    /\ resolve[path, 0].ok
    /\ (reached(path) \in DOMAIN files \/ reached(path) \in Directories)

\* open(path).read() followed by lex()
read(path) == files[reached(path)]

\* the files parse_file is called on
Roots == {fA, fC}

----------------------------------------------------------------------------
(* Syntax nodes (src/zov/ast.py) *)

ZovVariable(name, value) == [node |-> "ZovVariable", name |-> name, value |-> value]
ZovItem(name, values)    == [node |-> "ZovItem", name |-> name, values |-> values]
ZovCategory(name, items) == [node |-> "ZovCategory", name |-> name, items |-> items]
ZovDocument(categories)  == [node |-> "ZovDocument", categories |-> categories]

NoDoc == [node |-> "none", categories |-> <<>>]
NoError == [kind |-> "none", msg |-> "", arg |-> <<>>]
Error(kind, msg, arg) == [kind |-> kind, msg |-> msg, arg |-> arg]

----------------------------------------------------------------------------
(* The parser: parse_file, Parser.parse, Parser.parse_category.            *)
(* One frame of `stack` is one running call of parse() (kind "doc") or of  *)
(* parse_category() (kind "cat"); a "cat" frame runs on the Parser object  *)
(* of the parse() call beneath it and so carries the same base_path and    *)
(* seen_files.  When an exception is raised the stack is kept as it was at *)
(* the raise and nothing runs any more.                                    *)

Frame(kind, name, file, base_path, seen_files, toks) ==
    [kind |-> kind, name |-> name, file |-> file, base_path |-> base_path,
     seen_files |-> seen_files, toks |-> toks, pos |-> 1, out |-> <<>>]

Top == stack[Len(stack)]

peek == IF Top.pos <= Len(Top.toks) THEN Top.toks[Top.pos] ELSE [t |-> "EOF"]

Running == perr = NoError /\ stack # <<>>

\* the stack with its top frame replaced
WithTop(f) == [stack EXCEPT ![Len(stack)] = f]

\* the test of line 54: the path is under the base directory
UnderBaseNoSep(included_abs, base_abs) == startswith(included_abs, base_abs)
UnderBase(included_abs, base_abs) == startswith(included_abs, base_abs \o sep)

\* Parser._safe_include_path: the absolute path, or the SecurityError raised
safe_include_path(base_path, filename) ==
    LET included_path == path_join(base_path, filename)
        included_abs  == abspath(included_path)
        base_abs      == abspath(base_path)
    IN IF included_abs = base_abs THEN [ok |-> TRUE, path |-> included_abs]
       ELSE IF ~UnderBase(included_abs, base_abs) THEN
            [ok |-> FALSE, path |-> included_abs,
             err |-> Error("SecurityError", "Path traversal detected", filename)]
       ELSE [ok |-> TRUE, path |-> included_abs]

\* line 97 / line 150: the chain set handed to the parser of the included file
NewSeenGlobal(seen_files, included_abs) ==
    seen_files \cup {included_abs} \cup {opened[i] : i \in 1..Len(opened)}
new_seen(seen_files, included_abs) == seen_files \cup {included_abs}

\* line 102 / lines 155-159: the included members join the includer's list
ExtendInFront(categories, included) == included \o categories
extend(categories, included) == categories \o included

\* parse_file(filename)
ParseFile ==
    /\ perr = NoError /\ stack = <<>> /\ result = NoDoc /\ opened = <<>>
    /\ \E filename \in Roots :
         \E abs_path \in {abspath(filename)} :
         \E base_path \in {dirname(abs_path)} :
            /\ opened' = <<abs_path>>
            /\ lexed' = <<abs_path>>
            /\ stack' = <<Frame("doc", "", abs_path, base_path, {abs_path}, read(abs_path))>>
    /\ UNCHANGED <<files, links, result, perr, probed, ivars, lvars, ovars>>

\* parse() line 66-67, parse_category() line 160-161
ParseVariable ==
    /\ Running /\ peek.t = "VARIABLE"
    /\ stack' = WithTop([Top EXCEPT !.pos = @ + 1,
                                    !.out = Append(@, ZovVariable(peek.name, peek.value))])
    /\ UNCHANGED <<files, links, result, perr, probed, opened, lexed, ivars, lvars, ovars>>

\* parse_category() lines 115-120, the item branch
ParseItem ==
    /\ Running /\ peek.t = "ITEM" /\ Top.kind = "cat"
    /\ stack' = WithTop([Top EXCEPT !.pos = @ + 1,
                                    !.out = Append(@, ZovItem(peek.name, <<peek.value>>))])
    /\ UNCHANGED <<files, links, result, perr, probed, opened, lexed, ivars, lvars, ovars>>

\* parse() line 104 on 'name = ...': parse_category expects '{' and raises
ParseStrayItem ==
    /\ Running /\ peek.t = "ITEM" /\ Top.kind = "doc"
    /\ perr' = Error("SyntaxError", "Expected LBRACE", <<>>)
    /\ stack' = WithTop([Top EXCEPT !.pos = @ + 1])
    /\ UNCHANGED <<files, links, result, probed, opened, lexed, ivars, lvars, ovars>>

\* parse() line 104, parse_category() line 118: a category opens
EnterCategory ==
    /\ Running /\ peek.t = "CATEGORY"
    /\ stack' = Append(WithTop([Top EXCEPT !.pos = @ + 1]),
                       Frame("cat", peek.name, Top.file, Top.base_path, Top.seen_files,
                             peek.body))
    /\ UNCHANGED <<files, links, result, perr, probed, opened, lexed, ivars, lvars, ovars>>

\* parse_category() lines 168-169: '}' closes the category
ReturnCategory ==
    /\ Running /\ peek.t = "EOF" /\ Top.kind = "cat"
    /\ LET below == stack[Len(stack) - 1]
           rest  == SubSeq(stack, 1, Len(stack) - 1)
       IN stack' = [rest EXCEPT ![Len(rest)] =
                        [below EXCEPT !.out = Append(@, ZovCategory(Top.name, Top.out))]]
    /\ UNCHANGED <<files, links, result, perr, probed, opened, lexed, ivars, lvars, ovars>>

\* the include statement: lines 68-81 / 121-133, the path leaves the directory
IncludeTraversal ==
    /\ Running /\ peek.t = "INCLUDE"
    /\ \E r \in {safe_include_path(Top.base_path, peek.filename)} :
          /\ ~r.ok
          /\ perr' = Error("SyntaxError", r.err.msg, r.err.arg)
    /\ stack' = WithTop([Top EXCEPT !.pos = @ + 1])
    /\ UNCHANGED <<files, links, result, probed, opened, lexed, ivars, lvars, ovars>>

\* lines 82-86 / 135-139: the target does not exist
IncludeNotFound ==
    /\ Running /\ peek.t = "INCLUDE"
    /\ \E r \in {safe_include_path(Top.base_path, peek.filename)} :
          /\ r.ok /\ ~exists(r.path)
          /\ probed' = Append(probed, r.path)
          /\ perr' = Error("FileNotFoundError", "Include file not found", peek.filename)
    /\ stack' = WithTop([Top EXCEPT !.pos = @ + 1])
    /\ UNCHANGED <<files, links, result, opened, lexed, ivars, lvars, ovars>>

\* lines 88-92 / 141-145: the target is open along the chain
IncludeCircular ==
    /\ Running /\ peek.t = "INCLUDE"
    /\ \E r \in {safe_include_path(Top.base_path, peek.filename)} :
          /\ r.ok /\ exists(r.path) /\ r.path \in Top.seen_files
          /\ probed' = Append(probed, r.path)
          /\ perr' = Error("SyntaxError", "Circular include detected", peek.filename)
    /\ stack' = WithTop([Top EXCEPT !.pos = @ + 1])
    /\ UNCHANGED <<files, links, result, opened, lexed, ivars, lvars, ovars>>

\* lines 94 / 147: open() of a directory raises
IncludeDirectory ==
    /\ Running /\ peek.t = "INCLUDE"
    /\ \E r \in {safe_include_path(Top.base_path, peek.filename)} :
          /\ r.ok /\ exists(r.path) /\ r.path \notin Top.seen_files
          /\ reached(r.path) \notin DOMAIN files
          /\ probed' = Append(probed, r.path)
          /\ opened' = Append(opened, r.path)
          /\ perr' = Error("IsADirectoryError", "Is a directory", r.path)
    /\ stack' = WithTop([Top EXCEPT !.pos = @ + 1])
    /\ UNCHANGED <<files, links, result, lexed, ivars, lvars, ovars>>

\* lines 94-100 / 147-153: the target is read, lexed, and parsed by a new Parser
IncludeDescend ==
    /\ Running /\ peek.t = "INCLUDE"
    /\ \E r \in {safe_include_path(Top.base_path, peek.filename)} :
          /\ r.ok /\ exists(r.path) /\ r.path \notin Top.seen_files
          /\ reached(r.path) \in DOMAIN files
          /\ probed' = Append(probed, r.path)
          /\ opened' = Append(opened, r.path)
          /\ lexed' = Append(lexed, r.path)
          /\ stack' = Append(WithTop([Top EXCEPT !.pos = @ + 1]),
                             Frame("doc", "", r.path, dirname(r.path),
                                   new_seen(Top.seen_files, r.path), read(r.path)))
    /\ UNCHANGED <<files, links, result, perr, ivars, lvars, ovars>>

\* line 105 in an included file, then line 102 / lines 155-159 in the includer
ReturnIncluded ==
    /\ Running /\ peek.t = "EOF" /\ Top.kind = "doc" /\ Len(stack) > 1
    /\ LET included_ast == ZovDocument(Top.out)
           below == stack[Len(stack) - 1]
           rest  == SubSeq(stack, 1, Len(stack) - 1)
       IN stack' = [rest EXCEPT ![Len(rest)] =
                        [below EXCEPT !.out = extend(@, included_ast.categories)]]
    /\ UNCHANGED <<files, links, result, perr, probed, opened, lexed, ivars, lvars, ovars>>

\* line 105 in the root file: parse_file returns the document
ReturnDocument ==
    /\ Running /\ peek.t = "EOF" /\ Top.kind = "doc" /\ Len(stack) = 1
    /\ result' = ZovDocument(Top.out)
    /\ stack' = <<>>
    /\ UNCHANGED <<files, links, perr, probed, opened, lexed, ivars, lvars, ovars>>

ParseStep ==
    \/ ParseVariable \/ ParseItem \/ ParseStrayItem \/ EnterCategory \/ ReturnCategory
    \/ IncludeTraversal \/ IncludeNotFound \/ IncludeCircular \/ IncludeDirectory
    \/ IncludeDescend \/ ReturnIncluded \/ ReturnDocument

\* no expression parsed yet
NoExpr == [k |-> "none"]

\* the lexer at rest
LexerIdle ==
    /\ source = <<>> /\ lpos = 1 /\ ltokens = <<>> /\ lerr = NoError /\ lexpr = NoExpr

\* to_dict not called
OutputIdle ==
    /\ out = <<>> /\ assembled = <<>> /\ oerr = NoError /\ ostate = "idle"

\* the interpreter at rest
InterpreterIdle ==
    /\ doc = NoDoc /\ use_decimal = FALSE /\ istack = <<>>
    /\ data = <<>> /\ variables = <<>> /\ ierr = NoError /\ istate = "idle"
    /\ environ = <<>>

InitParse ==
    /\ InterpreterIdle
    /\ LexerIdle
    /\ OutputIdle
    /\ \E ca \in Contents(fA), cb \in Contents(fB), cc \in Contents(fC) :
         files = (fA :> ca) @@ (fB :> cb) @@ (fC :> cc)
                 @@ (fD :> <<TokVariable("$only", Tag(fD))>>)
    /\ links = <<>>
    /\ stack = <<>>
    /\ result = NoDoc
    /\ perr = NoError
    /\ probed = <<>> /\ opened = <<>> /\ lexed = <<>>

NextParse == ParseFile \/ ParseStep

SpecParse == InitParse /\ [][NextParse]_vars

----------------------------------------------------------------------------
(* Properties of the include resolution *)

\* the named components of a path
Components(path) == SelectSeq(split[path], LAMBDA c : c # <<>>)

\* p is dir itself or lies beneath it, directory by directory
Inside(dir, p) ==
    LET d == Components(dir)
        q == Components(p)
    IN Len(d) <= Len(q) /\ SubSeq(q, 1, Len(d)) = d

\* the include statement the top frame is about to run, and its target
AtInclude == Running /\ peek.t = "INCLUDE"
Target(base_path, filename) == abspath(path_join(base_path, filename))

\* the include statement the top frame has just run
JustIncluded ==
    stack # <<>> /\ Top.pos > 1 /\ Top.toks[Top.pos - 1].t = "INCLUDE"
LastFilename == Top.toks[Top.pos - 1].filename

\* the files open along the include chain of a stack
ChainFiles(stk) == {stk[i].file : i \in {j \in 1..Len(stk) : stk[j].kind = "doc"}}

SiblingPrefixName == <<".", ".", "/", "r", "s", "/", "d">>

\* C1: an include whose normalised target is neither the directory of the
\* including file nor beneath it aborts the parse with the path-traversal
\* error, and the step tests no path for existence, opens and lexes nothing.
C1_TraversalAborts ==
    [][ (AtInclude /\ ~Inside(Top.base_path, Target(Top.base_path, peek.filename)))
        => /\ perr'.msg = "Path traversal detected"
           /\ result' = NoDoc
           /\ probed' = probed /\ opened' = opened /\ lexed' = lexed ]_vars

\* C1 witness: the include of a sibling directory sharing the name prefix was refused
C1_Witness ==
    /\ perr.msg = "Path traversal detected"
    /\ JustIncluded /\ LastFilename = SiblingPrefixName
    /\ ~Inside(Top.base_path, Target(Top.base_path, LastFilename))

\* C2 as stated: the circular-include error is raised exactly when the target
\* of the include is a file open along the current chain.
C2_CircularExactlyWhenInChain ==
    (perr.msg = "Circular include detected")
    <=> (perr # NoError /\ JustIncluded
         /\ Target(Top.base_path, LastFilename) \in ChainFiles(stack))

\* C2 amended: the circular-include error is raised exactly when the target
\* of the include passes the path-traversal test, exists, and is a file open
\* along the current chain; every parser's chain set is the set of files open
\* beneath it, so no file is parsed while it is open and a file included again
\* outside its own parse is parsed again.
C2_CircularExactlyWhenSafeInChain ==
    /\ (perr.msg = "Circular include detected")
       <=> (perr # NoError /\ JustIncluded
            /\ safe_include_path(Top.base_path, LastFilename).ok
            /\ exists(Target(Top.base_path, LastFilename))
            /\ Target(Top.base_path, LastFilename) \in ChainFiles(stack))
    /\ \A i \in 1..Len(stack) :
          /\ stack[i].seen_files = ChainFiles(SubSeq(stack, 1, i))
          /\ \A j \in 1..(i - 1) :
                (stack[i].kind = "doc" /\ stack[j].kind = "doc")
                => stack[i].file # stack[j].file

\* C2 witness: a parse that succeeded and read the same file twice
C2_Witness ==
    /\ result # NoDoc
    /\ \E i, j \in 1..Len(opened) : i < j /\ opened[i] = opened[j]

\* C3 as stated: each include failure reaches the caller as its own kind,
\* none of them as the SyntaxError of the grammar.
C3_DistinctKinds ==
    /\ (perr.msg = "Path traversal detected" => perr.kind = "SecurityError")
    /\ (perr.msg = "Circular include detected" => perr.kind = "CircularIncludeError")
    /\ (perr.msg = "Include file not found" => perr.kind = "FileNotFoundError")
    /\ (perr.msg = "Expected LBRACE" => perr.kind = "SyntaxError")

\* the tree the statements of a file denote: every include replaced, in
\* place, by the members its file denotes
RECURSIVE Splice(_, _)
Splice(toks, base_path) ==
    IF toks = <<>> THEN <<>>
    ELSE LET h == Head(toks)
             here == CASE h.t = "VARIABLE" -> <<ZovVariable(h.name, h.value)>>
                       [] h.t = "ITEM"     -> <<ZovItem(h.name, <<h.value>>)>>
                       [] h.t = "CATEGORY" -> <<ZovCategory(h.name, Splice(h.body, base_path))>>
                       [] h.t = "INCLUDE"  ->
                            LET target == Target(base_path, h.filename)
                            IN Splice(files[target], dirname(target))
         IN here \o Splice(Tail(toks), base_path)

RECURSIVE NoIncludeNode(_)
NoIncludeNode(members) ==
    \A i \in 1..Len(members) :
        \/ members[i].node \in {"ZovVariable", "ZovItem"}
        \/ members[i].node = "ZovCategory" /\ NoIncludeNode(members[i].items)

\* C4: the tree of a successful parse holds no include node, and its members
\* are those of the root file with every include replaced in place, and
\* recursively, by the members of the included file in their own order.
C4_SplicedInPlace ==
    result # NoDoc
    => /\ NoIncludeNode(result.categories)
       /\ result.categories = Splice(files[opened[1]], dirname(opened[1]))

\* C4 witness: a category of the result holds, between its own first and last
\* item, the members of an included file that itself included a file
C4_Witness ==
    /\ result # NoDoc
    /\ \E i \in 1..Len(result.categories) :
          LET c == result.categories[i]
          IN /\ c.node = "ZovCategory" /\ Len(c.items) = 5
             /\ c.items[1].name = "first" /\ c.items[5].name = "last"
             /\ c.items[2].name = "$pre" /\ c.items[4].name = "$post"

----------------------------------------------------------------------------
(* The include resolution over a file system that holds symbolic links:   *)
(* /r/l names the directory /rs, which lies beside /r, and /r/o names /r  *)
(* itself.  abspath and dirname work on the text of a path and follow no  *)
(* link; os.path.exists and open follow them.                             *)

lOut  == <<"/", "r", "/", "l">>
lLoop == <<"/", "r", "/", "o">>

Symlinks == (lOut :> <<"/", "r", "s">>) @@ (lLoop :> <<"/", "r">>)

\* the include file names the statements draw from
LinkFilenames ==
    { <<"b">>,
      <<"a">>,
      <<"s", "/", "c">>,
      <<".", ".", "/", "a">>,
      <<"x">>,
      <<".">>,
      <<"l", "/", "d">>,                    \* through the link to /rs
      <<"o", "/", "a">>,                    \* through the link to /r
      <<"o", "/", "b">> }

\* the texts a file may hold
LinkContents(f) ==
    LET g == Tag(f) IN
    { <<TokVariable("$only", g)>>,
      <<TokItem("stray", g)>> }
    \cup { <<TokVariable("$pre", g), TokInclude(fn), TokVariable("$post", g)>> :
             fn \in LinkFilenames }
    \cup { <<TokCategory("k", <<TokItem("first", g), TokInclude(fn), TokItem("last", g)>>)>> :
             fn \in LinkFilenames }

InitLinks ==
    /\ InterpreterIdle
    /\ LexerIdle
    /\ OutputIdle
    /\ \E ca \in LinkContents(fA), cb \in LinkContents(fB) :
         files = (fA :> ca) @@ (fB :> cb)
                 @@ (fC :> <<TokVariable("$only", Tag(fC))>>)
                 @@ (fD :> <<TokVariable("$only", Tag(fD))>>)
    /\ links = Symlinks
    /\ stack = <<>>
    /\ result = NoDoc
    /\ perr = NoError
    /\ probed = <<>> /\ opened = <<>> /\ lexed = <<>>

SpecLinks == InitLinks /\ [][NextParse]_vars

\* parse_file runs in one thread: a statement that can run does run
SpecLinksFair == InitLinks /\ [][NextParse]_vars /\ WF_vars(NextParse)

\* C18: every file opened during one parse_file call lies inside the
\* directory of the root file; the base directory of every running parser is
\* the directory of its file and lies inside the root's directory, and the
\* file of a parser lies inside the base directory of its includer.
C18_OpenedInsideRoot ==
    /\ \A i \in 1..Len(opened) :
          /\ Inside(dirname(opened[1]), opened[i])
          /\ Inside(dirname(reached(opened[1])), reached(opened[i]))
    /\ \A k \in 1..Len(stack) :
          /\ stack[k].base_path = dirname(stack[k].file)
          /\ Inside(dirname(opened[1]), stack[k].base_path)
          /\ k > 1 => Inside(stack[k - 1].base_path, stack[k].file)

\* the parse has returned a tree or raised an error
ParseEnded == result # NoDoc \/ perr # NoError

\* the number of include statements whose file is being parsed
IncludeDepth ==
    Cardinality({k \in 1..Len(stack) : stack[k].kind = "doc"}) - 1

\* C19: parse_file ends, with a tree or with an error, and the include
\* nesting depth never exceeds the number of distinct files.
C19_TerminatesWithinFiles ==
    /\ <>ParseEnded
    /\ [](stack # <<>> => IncludeDepth <= Cardinality(DOMAIN files))

----------------------------------------------------------------------------
(* Values of the interpreter.  A Python value is a record tagged by its    *)
(* type; the tagged dicts of the lexer and the parser keep their __type__. *)
(* A float and a Decimal are modelled as the exact fraction n/d in lowest  *)
(* terms (d > 0): rounding is not modelled.                                *)

IntV(v)      == [k |-> "int", v |-> v]
BoolV(b)     == [k |-> "bool", b |-> b]
NoneV        == [k |-> "None"]
StrV(s)      == [k |-> "str", s |-> s]
Identifier(value)     == [k |-> "identifier", value |-> value]
VariableRef(name)     == [k |-> "variable_ref", name |-> name]
Dated(type, value)    == [k |-> type, value |-> value]
Quantity(type, num, unit) == [k |-> type, num |-> num, unit |-> unit]
ZovExpression(operator, left, right) ==
    [k |-> "ZovExpression", operator |-> operator, left |-> left, right |-> right]
ZovFunctionCall(name, args) == [k |-> "ZovFunctionCall", name |-> name, args |-> args]

Abs(x) == IF x < 0 THEN -x ELSE x

RECURSIVE Gcd(_, _)
Gcd(a, b) == IF b = 0 THEN a ELSE Gcd(b, a % b)

\* the fraction n/d in lowest terms with a positive denominator
Frac(n, d) ==
    LET g == Gcd(Abs(n), Abs(d))
        sgn == IF d < 0 THEN -1 ELSE 1
    IN [n |-> sgn * (n \div g), d |-> sgn * (d \div g)]

FloatV(n, d)   == [k |-> "float", n |-> Frac(n, d).n, d |-> Frac(n, d).d]
DecimalV(n, d) == [k |-> "Decimal", n |-> Frac(n, d).n, d |-> Frac(n, d).d]

\* floor of the fraction n/d, d > 0
Floor(n, d) == n \div d

\* the value of a number as a fraction; a bool is the int 0 or 1
NumOf(x) ==
    CASE x.k = "int"  -> [n |-> x.v, d |-> 1]
      [] x.k = "bool" -> [n |-> IF x.b THEN 1 ELSE 0, d |-> 1]
      [] OTHER        -> [n |-> x.n, d |-> x.d]

\* isinstance(x, (int, float)): bool is a subclass of int
IsIntOrFloat(x) == x.k \in {"int", "float", "bool", "bigint", "bigfloat"}

IsStr(x) == x.k = "str"

\* isinstance(x, dict) and '__type__' in x
IsTagged(x) == x.k \in {"identifier", "variable_ref", "date", "datetime", "time",
                        "duration", "size"}

Digit(i) == CASE i = 0 -> "0" [] i = 1 -> "1" [] i = 2 -> "2" [] i = 3 -> "3"
              [] i = 4 -> "4" [] i = 5 -> "5" [] i = 6 -> "6" [] i = 7 -> "7"
              [] i = 8 -> "8" [] i = 9 -> "9"

Digits == {"0", "1", "2", "3", "4", "5", "6", "7", "8", "9"}

DigitVal(c) == CHOOSE i \in 0..9 : Digit(i) = c

\* the decimal digits of a natural number
RECURSIVE NatStr(_)
NatStr(n) == IF n < 10 THEN <<Digit(n)>> ELSE NatStr(n \div 10) \o <<Digit(n % 10)>>

\* str(int)
IntStr(n) == IF n < 0 THEN <<"-">> \o NatStr(-n) ELSE NatStr(n)

\* the fraction digits printed at most: repr() prints the shortest text that
\* reads back as the float, which for the fractions of the model is the
\* whole terminating expansion
ReprDigits == 17

\* the digits after the point of r/d (0 <= r < d), at most `left` of them
RECURSIVE FracStr(_, _, _)
FracStr(r, d, left) ==
    IF r = 0 \/ left = 0 THEN <<>>
    ELSE <<Digit((r * 10) \div d)>> \o FracStr((r * 10) % d, d, left - 1)

\* repr(float) of the fraction n/d
FloatStr(n, d) ==
    LET a == Abs(n)
        frac == FracStr(a % d, d, ReprDigits)
    IN (IF n < 0 THEN <<"-">> ELSE <<>>) \o NatStr(a \div d) \o <<".">>
       \o (IF frac = <<>> THEN <<"0">> ELSE frac)

\* the text of a '__type__'
TypeText(k) ==
    CASE k = "identifier" -> <<"i", "d", "e", "n", "t", "i", "f", "i", "e", "r">>
      [] k = "date"       -> <<"d", "a", "t", "e">>
      [] k = "datetime"   -> <<"d", "a", "t", "e", "t", "i", "m", "e">>
      [] k = "time"       -> <<"t", "i", "m", "e">>
      [] k = "duration"   -> <<"d", "u", "r", "a", "t", "i", "o", "n">>
      [] k = "size"       -> <<"s", "i", "z", "e">>

\* repr(s) of a text holding neither quote nor backslash
ReprStr(s) == <<"'">> \o s \o <<"'">>

\* repr(num) of the int or float of a duration or a size
NumStr(x) == IF x.k = "int" THEN IntStr(x.v) ELSE FloatStr(x.n, x.d)

\* str(x) of a tagged dict: its keys in the order the lexer and the parser
\* wrote them
DictStr(x) ==
    <<"{", "'", "_", "_", "t", "y", "p", "e", "_", "_", "'", ":", " ">> \o ReprStr(TypeText(x.k))
    \o <<",", " ", "'", "v", "a", "l", "u", "e", "'", ":", " ">>
    \o (IF x.k \in {"duration", "size"}
        THEN NumStr(x.num) \o <<",", " ", "'", "u", "n", "i", "t", "'", ":", " ">> \o ReprStr(x.unit)
        ELSE ReprStr(x.value))
    \o <<"}">>

\* str(x) of a Python value
PyStr(x) ==
    CASE IsTagged(x)   -> DictStr(x)
      [] x.k = "int"   -> IntStr(x.v)
      [] x.k = "float" -> FloatStr(x.n, x.d)
      [] x.k = "bool"  -> IF x.b THEN <<"T", "r", "u", "e">> ELSE <<"F", "a", "l", "s", "e">>
      [] x.k = "None"  -> <<"N", "o", "n", "e">>
      [] x.k = "str"   -> x.s
      [] x.k = "Decimal" -> IF x.d = 1 THEN IntStr(x.n) ELSE FloatStr(x.n, x.d)

\* the value of a digit string
RECURSIVE NatVal(_)
NatVal(ds) == IF ds = <<>> THEN 0 ELSE NatVal(SubSeq(ds, 1, Len(ds) - 1)) * 10 + DigitVal(ds[Len(ds)])

RECURSIVE Pow10(_)
Pow10(e) == IF e = 0 THEN 1 ELSE 10 * Pow10(e - 1)

AllDigits(ds) == ds # <<>> /\ \A i \in 1..Len(ds) : ds[i] \in Digits

\* Decimal(text): [sign] digits [. digits]; any other text is refused
DecimalOfText(text) ==
    LET signed == text # <<>> /\ text[1] \in {"-", "+"}
        body   == IF signed THEN Tail(text) ELSE text
        sgn    == IF signed /\ text[1] = "-" THEN -1 ELSE 1
        dots   == {i \in 1..Len(body) : body[i] = "."}
    IN IF dots = {} THEN
            IF AllDigits(body) THEN [ok |-> TRUE, v |-> DecimalV(sgn * NatVal(body), 1)]
            ELSE [ok |-> FALSE]
       ELSE LET i == CHOOSE j \in dots : TRUE
                ip == SubSeq(body, 1, i - 1)
                fp == SubSeq(body, i + 1, Len(body))
            IN IF Cardinality(dots) = 1 /\ AllDigits(ip \o fp)
               THEN [ok |-> TRUE,
                     v |-> DecimalV(sgn * NatVal(ip \o fp), Pow10(Len(fp)))]
               ELSE [ok |-> FALSE]

\* str(x) as Decimal(str(x)) reads it on line 179 / 181
StrForDecimal(x) == PyStr(x)

----------------------------------------------------------------------------
(* Integers beyond the range of IntV.  int(value) of the lexer has no      *)
(* width; an integer literal of up to seventeen digits is kept as two      *)
(* limbs, hi * Limb + lo.  Such a literal is modelled as the dividend of / *)
(* only, with a small positive divisor: int / int of Python is the double  *)
(* nearest to the quotient, ties to the even mantissa, and a double has a  *)
(* mantissa of 53 bits.                                                    *)

Limb == 10000 * 10000

Wide(hi, lo) == [hi |-> hi, lo |-> lo]

\* 2^52 and 2^53: the mantissa m of a double satisfies 2^52 <= m < 2^53
TwoTo52 == Wide(45035996, 27370496)
TwoTo53 == Wide(90071992, 54740992)

WLess(x, y) == x.hi < y.hi \/ (x.hi = y.hi /\ x.lo < y.lo)

WAdd(x, n) == Wide(x.hi + (x.lo + n) \div Limb, (x.lo + n) % Limb)

WDouble(x) == Wide(2 * x.hi + (2 * x.lo) \div Limb, (2 * x.lo) % Limb)

\* quotient and remainder of x by the small divisor d
WDivMod(x, d) ==
    LET low == (x.hi % d) * Limb + x.lo
    IN [q |-> Wide(x.hi \div d, low \div d), r |-> low % d]

WHalf(x) == WDivMod(x, 2).q

WEven(x) == x.lo % 2 = 0

RECURSIVE WTimesPow2(_, _)
WTimesPow2(x, e) == IF e = 0 THEN x ELSE WTimesPow2(WDouble(x), e - 1)

\* a Python int of two limbs
BigIntV(w) == [k |-> "bigint", w |-> w]

\* a Python float beyond FloatV: mant / 2^shift in lowest terms, shift = 0
\* when the value is integral
BigFloatV(mant, shift) == [k |-> "bigfloat", mant |-> mant, shift |-> shift]

\* the numerator and the divisor scaled by powers of two until the quotient
\* has 53 bits: t / d = (x / b) * 2^shift
RECURSIVE scale_to_mantissa(_, _, _)
scale_to_mantissa(t, d, shift) ==
    LET q == WDivMod(t, d).q
    IN IF WLess(q, TwoTo52) THEN scale_to_mantissa(WDouble(t), d, shift + 1)
       ELSE IF ~WLess(q, TwoTo53) THEN scale_to_mantissa(t, 2 * d, shift - 1)
       ELSE [t |-> t, d |-> d, shift |-> shift]

\* the mantissa and the shift of the double nearest to x / b: its value is
\* mant / 2^shift (mant * 2^-shift when shift <= 0), in lowest terms
RECURSIVE lowest_terms(_, _)
lowest_terms(mant, shift) ==
    IF shift > 0 /\ WEven(mant) THEN lowest_terms(WHalf(mant), shift - 1)
    ELSE [mant |-> mant, shift |-> shift]

\* round half to even of the quotient qr.q with remainder qr.r of divisor d
round_half_even(qr, d) ==
    IF 2 * qr.r > d \/ (2 * qr.r = d /\ ~WEven(qr.q)) THEN WAdd(qr.q, 1)
    ELSE qr.q

round_scaled(s) ==
    lowest_terms(round_half_even(WDivMod(s.t, s.d), s.d), s.shift)

nearest_double(x, b) == round_scaled(scale_to_mantissa(x, b, 0))

\* the float of mant / 2^shift; a shift <= 0 multiplies the mantissa out
make_big_float(f) ==
    IF f.shift <= 0 THEN BigFloatV(WTimesPow2(f.mant, -f.shift), 0)
    ELSE BigFloatV(f.mant, f.shift)

\* line 197 for a two-limb dividend and a small positive divisor
big_truediv(left, right) == make_big_float(nearest_double(left.w, right.v))

\* float.is_integer() and int(result), lines 200-201
big_is_integer(x) == x.shift = 0
big_int(x) == BigIntV(x.mant)

----------------------------------------------------------------------------
(* Expression evaluation (src/zov/interpreter.py).  An evaluation returns  *)
(* Ok(value) or Raise(exception).                                          *)

Ok(v) == [ok |-> TRUE, v |-> v]
Raise(kind, msg, arg) == [ok |-> FALSE, err |-> Error(kind, msg, arg)]

\* ZovInterpreter._simplify_value
simplify_value(value, precise) ==
    IF precise /\ value.k = "Decimal" THEN FloatV(value.n, value.d)
    ELSE IF value.k = "identifier" THEN StrV(value.value)
    ELSE IF value.k \in {"date", "datetime", "time"} THEN StrV(value.value)
    ELSE IF value.k \in {"duration", "size"} THEN StrV(PyStr(value.num) \o value.unit)
    ELSE value

\* lines 169-174: the identifier operand the error names, the left one first
IdentifierOfLeftOnly(left, right) ==
    IF left.k = "identifier" THEN [found |-> TRUE, value |-> left.value]
    ELSE [found |-> FALSE]
identifier_operand(left, right) ==
    IF left.k = "identifier" THEN [found |-> TRUE, value |-> left.value]
    ELSE IF right.k = "identifier" THEN [found |-> TRUE, value |-> right.value]
    ELSE [found |-> FALSE]

\* lines 195 / 204: right == 0
IsZeroIntOnly(right) == right.k = "int" /\ right.v = 0
is_zero(right) == NumOf(right).n = 0

\* the type of the result of an arithmetic operator on two numbers
ResultKind(left, right) ==
    IF left.k = "Decimal" THEN "Decimal"
    ELSE IF left.k = "float" \/ right.k = "float" THEN "float"
    ELSE "int"

Number(kind, n, d) ==
    CASE kind = "Decimal" -> DecimalV(n, d)
      [] kind = "float"   -> FloatV(n, d)
      [] kind = "int"     -> IntV(n \div d)

\* left % right of Python: the sign of the divisor for int and float, the
\* sign of the dividend for Decimal; ZeroDivisionError on a zero divisor
py_mod(left, right) ==
    LET a == NumOf(left)
        b == NumOf(right)
    IN IF b.n = 0 THEN Raise("ZeroDivisionError", "modulo by zero", <<>>)
       ELSE LET qn == a.n * b.d          \* a / b = qn / qd
                qd == a.d * b.n
                q  == Frac(qn, qd)
                fl == Floor(q.n, q.d)
                tr == IF q.n < 0 /\ q.n % q.d # 0 THEN fl + 1 ELSE fl
                m  == IF left.k = "Decimal" THEN tr ELSE fl
            IN \* a - m * b
               Ok(Number(ResultKind(left, right), a.n * b.d - m * b.n * a.d, a.d * b.d))

\* left / right of Python: true division; ZeroDivisionError on a zero divisor
py_truediv(left, right) ==
    LET a == NumOf(left)
        b == NumOf(right)
    IN IF b.n = 0 THEN Raise("ZeroDivisionError", "division by zero", <<>>)
       ELSE IF left.k = "bigint" THEN Ok(big_truediv(left, right))
       ELSE Ok(IF left.k = "Decimal" THEN DecimalV(a.n * b.d, a.d * b.n)
               ELSE FloatV(a.n * b.d, a.d * b.n))

\* lines 188-208: the operator applied to two numbers
apply_operator(operator, left, right, precise) ==
    LET a == NumOf(left)
        b == NumOf(right)
        kind == ResultKind(left, right)
    IN CASE operator = "PLUS"     -> Ok(Number(kind, a.n * b.d + b.n * a.d, a.d * b.d))
         [] operator = "MINUS"    -> Ok(Number(kind, a.n * b.d - b.n * a.d, a.d * b.d))
         [] operator = "MULTIPLY" -> Ok(Number(kind, a.n * b.n, a.d * b.d))
         [] operator = "DIVIDE"   ->
                IF is_zero(right) THEN Raise("ValueError", "Division by zero", <<>>)
                ELSE LET res == py_truediv(left, right)
                     IN IF ~res.ok \/ precise THEN res
                        ELSE IF res.v.k = "float" /\ res.v.d = 1 THEN Ok(IntV(res.v.n))
                        ELSE IF res.v.k = "bigfloat" /\ big_is_integer(res.v)
                             THEN Ok(big_int(res.v))
                        ELSE res
         [] operator = "MODULO"   ->
                IF is_zero(right) THEN Raise("ValueError", "Modulo by zero", <<>>)
                ELSE py_mod(left, right)
         [] OTHER -> Raise("ValueError", "Unknown operator", <<>>)

\* lines 176-181: Decimal(str(x)) of an operand that is no Decimal yet
to_decimal(x) ==
    IF x.k = "Decimal" THEN Ok(x)
    ELSE LET r == DecimalOfText(StrForDecimal(x))
         IN IF r.ok THEN Ok(r.v)
            ELSE Raise("InvalidOperation", "ConversionSyntax", <<>>)

\* eval_expression lines 165-208, on the evaluated operands
binary(operator, left, right, precise) ==
    IF operator = "PLUS" /\ (IsStr(left) \/ IsStr(right)) THEN
        Ok(StrV(PyStr(simplify_value(left, precise))
                \o PyStr(simplify_value(right, precise))))
    ELSE IF identifier_operand(left, right).found THEN
        Raise("ValueError", "Cannot perform arithmetic on identifier",
              identifier_operand(left, right).value)
    ELSE IF precise THEN
        LET l == to_decimal(left)
            r == to_decimal(right)
        IN IF ~l.ok THEN l
           ELSE IF ~r.ok THEN r
           ELSE apply_operator(operator, l.v, r.v, precise)
    ELSE IF ~IsIntOrFloat(left) \/ ~IsIntOrFloat(right) THEN
        Raise("ValueError", "Cannot perform arithmetic on non-numeric values", <<>>)
    ELSE apply_operator(operator, left, right, precise)

LowerLetters == <<"a", "b", "c", "d", "e", "f", "g", "h", "i", "j", "k", "l", "m", "n", "o", "p", "q", "r", "s", "t", "u", "v", "w", "x", "y", "z">>
UpperLetters == <<"A", "B", "C", "D", "E", "F", "G", "H", "I", "J", "K", "L", "M", "N", "O", "P", "Q", "R", "S", "T", "U", "V", "W", "X", "Y", "Z">>

\* str.upper() and str.lower() on the letters a-z and A-Z
upper_char(c) ==
    IF \E i \in 1..26 : LowerLetters[i] = c
    THEN UpperLetters[CHOOSE i \in 1..26 : LowerLetters[i] = c] ELSE c
lower_char(c) ==
    IF \E i \in 1..26 : UpperLetters[i] = c
    THEN LowerLetters[CHOOSE i \in 1..26 : UpperLetters[i] = c] ELSE c
upper(s) == [i \in 1..Len(s) |-> upper_char(s[i])]
lower(s) == [i \in 1..Len(s) |-> lower_char(s[i])]

\* separator.join(items)
RECURSIVE str_join(_, _)
str_join(separator, items) ==
    IF items = <<>> THEN <<>>
    ELSE IF Len(items) = 1 THEN items[1]
    ELSE items[1] \o separator \o str_join(separator, Tail(items))

\* str(self._simplify_value(arg)) on every argument
display_all(args, precise) ==
    [i \in 1..Len(args) |-> PyStr(simplify_value(args[i], precise))]

\* line 124 / 129: the text the case conversion is applied to
upper_lower_text(arg, precise) == PyStr(arg)

\* line 104: os.environ.get(env_var, default)
environ_get(env_var, default) ==
    IF env_var \in DOMAIN environ THEN StrV(environ[env_var]) ELSE default

\* the names eval_function knows, lines 97-129
fn_env == <<"e", "n", "v">>
fn_concat == <<"c", "o", "n", "c", "a", "t">>
fn_join == <<"j", "o", "i", "n">>
fn_upper == <<"u", "p", "p", "e", "r">>
fn_lower == <<"l", "o", "w", "e", "r">>

\* eval_function lines 97-132, on the evaluated arguments
call_function(func_name, args, precise) ==
    CASE func_name = fn_env ->
            IF Len(args) < 1 \/ Len(args) > 2
            THEN Raise("ValueError", "env() expects 1 or 2 arguments", <<>>)
            ELSE LET env_var == PyStr(args[1])
                     default == IF Len(args) > 1 THEN args[2] ELSE NoneV
                     value   == environ_get(env_var, default)
                 IN IF value = NoneV
                    THEN Raise("ValueError", "Environment variable not found", env_var)
                    ELSE Ok(value)
      [] func_name = fn_concat ->
            Ok(StrV(str_join(<<>>, display_all(args, precise))))
      [] func_name = fn_join ->
            IF Len(args) < 2
            THEN Raise("ValueError", "join() expects at least 2 arguments", <<>>)
            ELSE Ok(StrV(str_join(PyStr(args[1]), display_all(Tail(args), precise))))
      [] func_name = fn_upper ->
            IF Len(args) # 1
            THEN Raise("ValueError", "upper() expects 1 argument", <<>>)
            ELSE Ok(StrV(upper(upper_lower_text(args[1], precise))))
      [] func_name = fn_lower ->
            IF Len(args) # 1
            THEN Raise("ValueError", "lower() expects 1 argument", <<>>)
            ELSE Ok(StrV(lower(upper_lower_text(args[1], precise))))
      [] OTHER -> Raise("ValueError", "Unknown function", <<>>)

----------------------------------------------------------------------------
(* The lexer (src/zov/lexer.py).  A match of one alternative of the master *)
(* pattern at position i of the text is the position after the match, or 0 *)
(* when the alternative does not match at i.  Python tries the             *)
(* alternatives in the order of TOKEN_SPECIFICATION and, inside one        *)
(* alternative, the longest repetition first.  The alphabet has no         *)
(* Cyrillic letter.                                                        *)

NL  == "\n"
TAB == "\t"
BS  == "\\"
DQ  == "\""

\* [a-zA-Z_] and [a-zA-Z_0-9]
NameStart ==
    {LowerLetters[i] : i \in 1..26} \cup {UpperLetters[i] : i \in 1..26} \cup {"_"}
NameChars == NameStart \cup Digits

\* code[i], or the empty text past either end
At(code, i) == IF i >= 1 /\ i <= Len(code) THEN code[i] ELSE ""

\* the position after the longest run of characters of S that starts at i
RECURSIVE span(_, _, _)
span(code, i, S) == IF At(code, i) \in S THEN span(code, i + 1, S) ELSE i

\* the position of the first character of S at or after i, Len(code) + 1 if none
RECURSIVE span_until(_, _, _)
span_until(code, i, S) ==
    IF i > Len(code) \/ code[i] \in S THEN i ELSE span_until(code, i + 1, S)

looking_at(code, i, lit) ==
    i + Len(lit) - 1 <= Len(code) /\ SubSeq(code, i, i + Len(lit) - 1) = lit

\* \b
word_boundary(code, i) == (At(code, i - 1) \in NameChars) # (At(code, i) \in NameChars)

\* (lit1|lit2|...) at i
RECURSIVE first_literal(_, _, _)
first_literal(code, i, lits) ==
    IF lits = <<>> THEN 0
    ELSE IF looking_at(code, i, Head(lits)) THEN i + Len(Head(lits))
    ELSE first_literal(code, i, Tail(lits))

\* \b(word1|word2|...)\b at i
RECURSIVE keyword(_, _, _)
keyword(code, i, words) ==
    IF words = <<>> \/ ~word_boundary(code, i) THEN 0
    ELSE IF looking_at(code, i, Head(words))
            /\ word_boundary(code, i + Len(Head(words)))
         THEN i + Len(Head(words))
         ELSE keyword(code, i, Tail(words))

NullWords == << <<"n", "u", "l", "l">>, <<"n", "o", "n", "e">> >>
BoolWords == << <<"t", "r", "u", "e">>, <<"f", "a", "l", "s", "e">> >>
IncludeWords == << <<"i", "n", "c", "l", "u", "d", "e">> >>

\* (\.\d+)? after the digits that end before e
fraction_end(code, e) ==
    IF At(code, e) = "." /\ At(code, e + 1) \in Digits THEN span(code, e + 2, Digits)
    ELSE e

\* \d+(\.\d+)? at i
number_end(code, i) ==
    IF At(code, i) \in Digits THEN fraction_end(code, span(code, i, Digits)) ELSE 0

DurationUnits == << <<"m", "s">>, <<"s">>, <<"m">>, <<"h">>, <<"d">>, <<"w">> >>
SizeUnits ==
    << <<"B">>, <<"K", "B">>, <<"M", "B">>, <<"G", "B">>, <<"T", "B">>,
       <<"K", "i", "B">>, <<"M", "i", "B">>, <<"G", "i", "B">>, <<"T", "i", "B">> >>

\* the unit that must follow the number ending before e
unit_end(code, e, units) == IF e = 0 THEN 0 ELSE first_literal(code, e, units)

\* a pattern of \d and literal characters: "d" of a shape stands for \d
shape_end(code, i, shape) ==
    IF \A k \in 1..Len(shape) :
          IF shape[k] = "d" THEN At(code, i + k - 1) \in Digits
          ELSE At(code, i + k - 1) = shape[k]
    THEN i + Len(shape) ELSE 0

DateShape == <<"d", "d", "d", "d", "-", "d", "d", "-", "d", "d">>
TimeShape == <<"d", "d", ":", "d", "d">>
SecondsShape == <<":", "d", "d">>
DateTimeShape == DateShape \o <<"T">> \o TimeShape \o SecondsShape

\* \d{2}:\d{2}(:\d{2})?
time_end(code, i) ==
    IF shape_end(code, i, TimeShape) = 0 THEN 0
    ELSE IF shape_end(code, i + Len(TimeShape), SecondsShape) # 0
         THEN i + Len(TimeShape) + Len(SecondsShape)
         ELSE i + Len(TimeShape)

\* [a-zA-Z_][a-zA-Z_0-9]*
name_end(code, i) ==
    IF At(code, i) \in NameStart THEN span(code, i + 1, NameChars) ELSE 0

\* one round of (?:[^"\\]|\\.)* at p, or of (?:[^"\\$]|\\.)* when stop holds
\* the dollar too: the position after the character or the escape, 0 if none
body_step(code, p, stop) ==
    IF p > Len(code) \/ code[p] \in stop THEN 0
    ELSE IF code[p] = BS
         THEN (IF p + 1 <= Len(code) /\ code[p + 1] # NL THEN p + 2 ELSE 0)
         ELSE p + 1

\* the position where the longest repetition of body_step from p ends
RECURSIVE body_end(_, _, _)
body_end(code, p, stop) ==
    IF body_step(code, p, stop) = 0 THEN p
    ELSE body_end(code, body_step(code, p, stop), stop)

\* the closing quote at p
close_quote(code, p) == IF At(code, p) = DQ THEN p + 1 ELSE 0

\* "(?:[^"\\$]|\\.)*"
string_end(code, i) ==
    IF At(code, i) = DQ THEN close_quote(code, body_end(code, i + 1, {DQ, "$"})) ELSE 0

\* \{[^}]+\} with its brace before q
brace_end(code, q) ==
    IF q <= Len(code) /\ code[q] # "}" /\ span_until(code, q, {"}"}) <= Len(code)
    THEN span_until(code, q, {"}"}) + 1 ELSE 0

\* \$(?:name|\{[^}]+\}) at p
marker_end(code, p) ==
    IF At(code, p) # "$" THEN 0
    ELSE IF At(code, p + 1) = "{" THEN brace_end(code, p + 2)
    ELSE name_end(code, p + 1)

\* the first alternative the regex engine tries, the second if that one fails
prefer(first, second) == IF first # 0 THEN first ELSE second

\* (?:\$(?:...))+(?:[^"\\]|\\.)*" at p: one more marker is tried before the
\* text after the markers
RECURSIVE markers_end(_, _)
markers_end(code, p) ==
    IF marker_end(code, p) = 0 THEN 0
    ELSE prefer(markers_end(code, marker_end(code, p)),
                close_quote(code, body_end(code, marker_end(code, p), {DQ})))

\* the text before the markers: the longest repetition first, then shorter ones
RECURSIVE text_then_markers(_, _)
text_then_markers(code, p) ==
    IF body_step(code, p, {DQ}) = 0 THEN markers_end(code, p)
    ELSE prefer(text_then_markers(code, body_step(code, p, {DQ})),
                markers_end(code, p))

\* INTERPOLATED_STRING_MARKER at i
interpolated_end(code, i) ==
    IF At(code, i) = DQ THEN text_then_markers(code, i + 1) ELSE 0

TOKEN_SPECIFICATION ==
    <<"COMMENT", "NULL", "BOOL", "DURATION", "SIZE", "DATETIME", "DATE", "TIME",
      "NUMBER", "STRING", "INTERPOLATED_STRING_MARKER", "INCLUDE", "LBRACE",
      "RBRACE", "LPAREN", "RPAREN", "SEMICOLON", "COMMA", "EQUALS", "PLUS",
      "MINUS", "MULTIPLY", "DIVIDE", "MODULO", "VARIABLE", "FUNCTION", "ID",
      "SKIP", "NEWLINE", "MISMATCH">>

\* the character of a one-character token
Punctuation(kind) ==
    CASE kind = "LBRACE" -> "{" [] kind = "RBRACE" -> "}" [] kind = "LPAREN" -> "("
      [] kind = "RPAREN" -> ")" [] kind = "SEMICOLON" -> ";" [] kind = "COMMA" -> ","
      [] kind = "EQUALS" -> "=" [] kind = "PLUS" -> "+" [] kind = "MINUS" -> "-"
      [] kind = "MULTIPLY" -> "*" [] kind = "DIVIDE" -> "/" [] kind = "MODULO" -> "%"

\* the pattern of one alternative of TOKEN_SPECIFICATION, matched at i
pattern_end(kind, code, i) ==
    CASE kind = "COMMENT"  -> IF At(code, i) = "#" THEN span_until(code, i + 1, {NL}) ELSE 0
      [] kind = "NULL"     -> keyword(code, i, NullWords)
      [] kind = "BOOL"     -> keyword(code, i, BoolWords)
      [] kind = "DURATION" -> unit_end(code, number_end(code, i), DurationUnits)
      [] kind = "SIZE"     -> unit_end(code, number_end(code, i), SizeUnits)
      [] kind = "DATETIME" -> shape_end(code, i, DateTimeShape)
      [] kind = "DATE"     -> shape_end(code, i, DateShape)
      [] kind = "TIME"     -> time_end(code, i)
      [] kind = "NUMBER"   -> number_end(code, IF At(code, i) = "-" THEN i + 1 ELSE i)
      [] kind = "STRING"   -> string_end(code, i)
      [] kind = "INTERPOLATED_STRING_MARKER" -> interpolated_end(code, i)
      [] kind = "INCLUDE"  -> keyword(code, i, IncludeWords)
      [] kind = "VARIABLE" -> IF At(code, i) = "$" THEN name_end(code, i + 1) ELSE 0
      [] kind = "FUNCTION" ->
            IF name_end(code, i) # 0 /\ At(code, name_end(code, i)) = "(" 
            THEN name_end(code, i) ELSE 0
      [] kind = "ID"       -> name_end(code, i)
      [] kind = "SKIP"     -> IF At(code, i) \in {" ", TAB} THEN span(code, i, {" ", TAB}) ELSE 0
      [] kind = "NEWLINE"  -> IF At(code, i) = NL THEN i + 1 ELSE 0
      [] kind = "MISMATCH" -> IF i <= Len(code) /\ code[i] # NL THEN i + 1 ELSE 0
      [] OTHER             -> IF At(code, i) = Punctuation(kind) THEN i + 1 ELSE 0

\* match.lastgroup of the match at i: the first alternative that matches
lastgroup(code, i) ==
    TOKEN_SPECIFICATION[
        CHOOSE k \in 1..Len(TOKEN_SPECIFICATION) :
            /\ pattern_end(TOKEN_SPECIFICATION[k], code, i) # 0
            /\ \A j \in 1..(k - 1) : pattern_end(TOKEN_SPECIFICATION[j], code, i) = 0 ]

Token(type, value) == [type |-> type, value |-> value]

ZovInterpolatedString(parts) == [k |-> "ZovInterpolatedString", parts |-> parts]

\* str.replace(old, new): the occurrences of old from the left, not overlapping
RECURSIVE str_replace(_, _, _)
str_replace(s, old, new) ==
    IF Len(s) < Len(old) THEN s
    ELSE IF SubSeq(s, 1, Len(old)) = old
         THEN new \o str_replace(SubSeq(s, Len(old) + 1, Len(s)), old, new)
         ELSE <<Head(s)>> \o str_replace(Tail(s), old, new)

\* line 95: the four replacements applied one after the other to the content
decode_string(value) ==
    str_replace(
      str_replace(
        str_replace(
          str_replace(SubSeq(value, 2, Len(value) - 1), <<BS, "n">>, <<NL>>),
          <<BS, "t">>, <<TAB>>),
        <<BS, DQ>>, <<DQ>>),
      <<BS, BS>>, <<BS>>)

\* line 64-65: escape_map.get(c, c)
escape_map(c) == IF c = "n" THEN NL ELSE IF c = "t" THEN TAB ELSE c

\* current appended to parts when it is not empty, lines 68-70 and 90-91
flush(parts, current) ==
    IF current = <<>> THEN parts ELSE Append(parts, [type |-> "text", value |-> current])

\* value.find('}', from): the position of the first '}' at or after from, 0 if none
find_brace(value, from) ==
    IF span_until(value, from, {"}"}) <= Len(value) THEN span_until(value, from, {"}"}) ELSE 0

\* lines 59-91: the parts of an interpolated string token; i is the position
\* in value, counted from 1
RECURSIVE interpolated_parts(_, _, _, _)
interpolated_parts(value, i, current, parts) ==
    IF i > Len(value) - 1 THEN Ok(flush(parts, current))
    ELSE IF value[i] = BS /\ i + 1 <= Len(value) - 1 THEN
        interpolated_parts(value, i + 2, current \o <<escape_map(value[i + 1])>>, parts)
    ELSE IF value[i] = "$" THEN
        IF i + 1 <= Len(value) - 1 /\ value[i + 1] = "{" THEN
            IF find_brace(value, i + 2) # 0
            THEN interpolated_parts(value, find_brace(value, i + 2) + 1, <<>>,
                    Append(flush(parts, current),
                           [type |-> "expr",
                            value |-> SubSeq(value, i + 2, find_brace(value, i + 2) - 1)]))
            ELSE Raise("SyntaxError", "Unclosed interpolation", <<>>)
        ELSE IF name_end(value, i + 1) # 0
        THEN interpolated_parts(value, name_end(value, i + 1), <<>>,
                Append(flush(parts, current),
                       [type |-> "var", value |-> SubSeq(value, i, name_end(value, i + 1) - 1)]))
        ELSE interpolated_parts(value, i + 1, <<"$">>, flush(parts, current))
    ELSE interpolated_parts(value, i + 1, current \o <<value[i]>>, parts)

\* float(text) and int(text) of a digit text with an optional fraction
number_value(text) ==
    IF \E i \in 1..Len(text) : text[i] = "."
    THEN FloatV(NatVal(SelectSeq(text, LAMBDA c : c # ".")),
                Pow10(Len(text) - span_until(text, 1, {"."})))
    ELSE IntV(NatVal(text))

\* the number of a NUMBER token: the text may start with a minus sign
signed_number_value(text) ==
    IF Head(text) # "-" THEN number_value(text)
    ELSE IF number_value(Tail(text)).k = "int" THEN IntV(-number_value(Tail(text)).v)
    ELSE FloatV(-number_value(Tail(text)).n, number_value(Tail(text)).d)

\* the value of the token of a literal, lines 94-125
token_value(kind, value) ==
    CASE kind = "STRING"   -> StrV(decode_string(value))
      [] kind = "DURATION" ->
            Quantity("duration", number_value(SubSeq(value, 1, number_end(value, 1) - 1)),
                     SubSeq(value, number_end(value, 1), Len(value)))
      [] kind = "SIZE"     ->
            Quantity("size", number_value(SubSeq(value, 1, number_end(value, 1) - 1)),
                     SubSeq(value, number_end(value, 1), Len(value)))
      [] kind = "DATETIME" -> Dated("datetime", value)
      [] kind = "TIME"     -> Dated("time", value)
      [] kind = "DATE"     -> Dated("date", value)
      [] kind = "NUMBER"   -> signed_number_value(value)
      [] kind = "BOOL"     -> BoolV(value = <<"t", "r", "u", "e">>)
      [] kind = "NULL"     -> NoneV
      [] OTHER             -> value

\* the token of an interpolated string, line 93, or the error of line 78
interpolated_token(parts) ==
    IF parts.ok THEN Ok(<<Token("INTERPOLATED_STRING", parts.v)>>) ELSE parts

\* what one match yields, lines 50-131: no token, an error, or one token
yielded(kind, value) ==
    CASE kind \in {"NEWLINE", "SKIP", "COMMENT"} -> Ok(<<>>)
      [] kind = "MISMATCH" -> Raise("SyntaxError", "Unexpected character", value)
      [] kind = "INTERPOLATED_STRING_MARKER" ->
            interpolated_token(interpolated_parts(value, 2, <<>>, <<>>))
      [] OTHER -> Ok(<<Token(kind, token_value(kind, value))>>)

\* the match of the alternative kind at i that ends before end
match_of(kind, code, i, end) ==
    [end |-> end, out |-> yielded(kind, SubSeq(code, i, end - 1))]

match_as(kind, code, i) == match_of(kind, code, i, pattern_end(kind, code, i))

\* one round of the loop of line 45: the match at i, its end and what it yields
lex_match(code, i) == match_as(lastgroup(code, i), code, i)

\* list(lex(code)): the tokens, or the first error
RECURSIVE lex_from(_, _, _)
RECURSIVE lex_rest(_, _, _)
lex_from(code, i, tokens) ==
    IF i > Len(code) THEN Ok(tokens) ELSE lex_rest(code, tokens, lex_match(code, i))
lex_rest(code, tokens, m) ==
    IF ~m.out.ok THEN m.out ELSE lex_from(code, m.end, tokens \o m.out.v)

lex(code) == lex_from(code, 1, <<>>)

----------------------------------------------------------------------------
(* Parser.parse_expression (src/zov/parser.py 198-273) on a token list.  A *)
(* parse returns Parsed(node, pos), pos the position of the next token     *)
(* counted from 1, or Raise(exception).                                    *)

Parsed(v, pos) == [ok |-> TRUE, v |-> v, pos |-> pos]

\* the type of self.peek(), "EOF" when peek() is None
peek_type(tokens, pos) == IF pos <= Len(tokens) THEN tokens[pos].type ELSE "EOF"

LiteralTypes ==
    {"NUMBER", "STRING", "BOOL", "NULL", "DATE", "DATETIME", "TIME", "DURATION", "SIZE"}

\* ZovExpression(op_tok.type, left, right) of lines 208 and 219
binary_node(operator, left, right) ==
    IF ~right.ok THEN right
    ELSE Parsed(ZovExpression(operator, left.v, right.v), right.pos)

\* self.expect('RPAREN') after the expression in parentheses, lines 231-232
close_paren(tokens, inner) ==
    IF ~inner.ok THEN inner
    ELSE IF peek_type(tokens, inner.pos) = "RPAREN" THEN Parsed(inner.v, inner.pos + 1)
    ELSE Raise("SyntaxError", "Expected RPAREN", <<>>)

RECURSIVE parse_additive(_, _)
RECURSIVE additive_loop(_, _)
RECURSIVE parse_multiplicative(_, _)
RECURSIVE multiplicative_loop(_, _)
RECURSIVE parse_primary(_, _)
RECURSIVE parse_arguments(_, _, _, _)
RECURSIVE after_argument(_, _, _, _)

parse_expression(tokens, pos) == parse_additive(tokens, pos)

parse_additive(tokens, pos) == additive_loop(tokens, parse_multiplicative(tokens, pos))

\* the while loop of lines 204-208
additive_loop(tokens, left) ==
    IF ~left.ok THEN left
    ELSE IF peek_type(tokens, left.pos) \in {"PLUS", "MINUS"}
    THEN additive_loop(tokens,
            binary_node(tokens[left.pos].type, left,
                        parse_multiplicative(tokens, left.pos + 1)))
    ELSE left

parse_multiplicative(tokens, pos) ==
    multiplicative_loop(tokens, parse_primary(tokens, pos))

\* the while loop of lines 215-219
multiplicative_loop(tokens, left) ==
    IF ~left.ok THEN left
    ELSE IF peek_type(tokens, left.pos) \in {"MULTIPLY", "DIVIDE", "MODULO"}
    THEN multiplicative_loop(tokens,
            binary_node(tokens[left.pos].type, left,
                        parse_primary(tokens, left.pos + 1)))
    ELSE left

parse_primary(tokens, pos) ==
    CASE peek_type(tokens, pos) = "EOF" ->
            Raise("SyntaxError", "Expected value, got end of file", <<>>)
      [] peek_type(tokens, pos) = "LPAREN" ->
            close_paren(tokens, parse_additive(tokens, pos + 1))
      [] peek_type(tokens, pos) = "FUNCTION" ->
            IF peek_type(tokens, pos + 1) = "LPAREN"
            THEN parse_arguments(tokens, pos + 2, tokens[pos].value, <<>>)
            ELSE Raise("SyntaxError", "Expected LPAREN", <<>>)
      [] peek_type(tokens, pos) = "INTERPOLATED_STRING" ->
            Parsed(ZovInterpolatedString(tokens[pos].value), pos + 1)
      [] peek_type(tokens, pos) \in LiteralTypes -> Parsed(tokens[pos].value, pos + 1)
      [] peek_type(tokens, pos) = "VARIABLE" ->
            Parsed(VariableRef(tokens[pos].value), pos + 1)
      [] peek_type(tokens, pos) = "ID" ->
            Parsed(Identifier(tokens[pos].value), pos + 1)
      [] OTHER -> Raise("SyntaxError", "Expected value", <<>>)

\* the while loop of lines 243-250 and the expect of line 252
parse_arguments(tokens, pos, func_name, args) ==
    IF peek_type(tokens, pos) = "EOF"
    THEN Raise("SyntaxError", "Expected RPAREN, got end of file", <<>>)
    ELSE IF peek_type(tokens, pos) = "RPAREN"
    THEN Parsed(ZovFunctionCall(func_name, args), pos + 1)
    ELSE after_argument(tokens, func_name, args, parse_additive(tokens, pos))

\* lines 245-250: a comma is consumed, anything but ')' and the end is refused
after_argument(tokens, func_name, args, arg) ==
    IF ~arg.ok THEN arg
    ELSE IF peek_type(tokens, arg.pos) = "COMMA"
    THEN parse_arguments(tokens, arg.pos + 1, func_name, Append(args, arg.v))
    ELSE IF peek_type(tokens, arg.pos) \notin {"RPAREN", "EOF"}
    THEN Raise("SyntaxError", "Expected COMMA or RPAREN in function call", <<>>)
    ELSE parse_arguments(tokens, arg.pos, func_name, Append(args, arg.v))

----------------------------------------------------------------------------
(* Evaluation of values (src/zov/interpreter.py 73-159) *)

\* str(self._simplify_value(v)), lines 143, 153 and 157
display(v, precise) == PyStr(simplify_value(v, precise))

\* the text of an evaluated ${...} part without the lookup of lines 151-153
expression_text_unresolved(value, env, precise) ==
    IF ~value.ok THEN value
    ELSE IF value.v.k = "identifier" THEN Ok(value.v.value)
    ELSE Ok(display(value.v, precise))

\* lines 150-157: the text of an evaluated ${...} part
expression_text(value, env, precise) ==
    IF ~value.ok THEN value
    ELSE IF value.v.k = "identifier"
    THEN IF (<<"$">> \o value.v.value) \in DOMAIN env
         THEN Ok(display(env[<<"$">> \o value.v.value], precise))
         ELSE Ok(value.v.value)
    ELSE Ok(display(value.v, precise))

\* line 147 on the tokens of line 145
parse_tokens(tokens) == IF ~tokens.ok THEN tokens ELSE parse_expression(tokens.v, 1)

\* ZovInterpreter.eval_value, eval_expression, eval_function and
\* eval_interpolated_string
RECURSIVE eval_value(_, _, _)
RECURSIVE eval_values(_, _, _)
RECURSIVE eval_parsed(_, _, _)
RECURSIVE eval_part(_, _, _)
RECURSIVE eval_parts(_, _, _, _)
RECURSIVE append_part(_, _, _, _, _)

\* line 148 on the expression of line 147
eval_parsed(expr_ast, env, precise) ==
    IF ~expr_ast.ok THEN expr_ast
    ELSE expression_text(eval_value(expr_ast.v, env, precise), env, precise)

\* lines 138-157: the text of one part
eval_part(part, env, precise) ==
    CASE part.type = "text" -> Ok(part.value)
      [] part.type = "var" ->
            IF part.value \notin DOMAIN env
            THEN Raise("ValueError", "Undefined variable in interpolated string", part.value)
            ELSE Ok(display(env[part.value], precise))
      [] part.type = "expr" -> eval_parsed(parse_tokens(lex(part.value)), env, precise)

\* the loop of line 137 and the join of line 159
eval_parts(parts, env, precise, result_text) ==
    IF parts = <<>> THEN Ok(StrV(result_text))
    ELSE append_part(Tail(parts), env, precise, result_text,
                     eval_part(Head(parts), env, precise))

append_part(parts, env, precise, result_text, text) ==
    IF ~text.ok THEN text ELSE eval_parts(parts, env, precise, result_text \o text.v)

eval_interpolated_string(interp_str, env, precise) ==
    eval_parts(interp_str.parts, env, precise, <<>>)

eval_value(value, env, precise) ==
    IF value.k = "ZovExpression" THEN
        LET left == eval_value(value.left, env, precise)
        IN IF ~left.ok THEN left
           ELSE LET right == eval_value(value.right, env, precise)
                IN IF ~right.ok THEN right
                   ELSE binary(value.operator, left.v, right.v, precise)
    ELSE IF value.k = "ZovFunctionCall" THEN
        LET args == eval_values(value.args, env, precise)
        IN IF ~args.ok THEN args ELSE call_function(value.name, args.v, precise)
    ELSE IF value.k = "ZovInterpolatedString" THEN
        eval_interpolated_string(value, env, precise)
    ELSE IF value.k = "variable_ref" THEN
        IF value.name \notin DOMAIN env
        THEN Raise("ValueError", "Undefined variable", value.name)
        ELSE Ok(env[value.name])
    ELSE Ok(value)

\* line 57, line 95: [self.eval_value(v) for v in ...], the first raise wins
eval_values(values, env, precise) ==
    IF values = <<>> THEN Ok(<<>>)
    ELSE LET h == eval_value(Head(values), env, precise)
         IN IF ~h.ok THEN h
            ELSE LET t == eval_values(Tail(values), env, precise)
                 IN IF ~t.ok THEN t ELSE Ok(<<h.v>> \o t.v)

----------------------------------------------------------------------------
(* The evaluation pass: ZovInterpreter.eval.  One frame of `istack` is one *)
(* running call of eval() on a ZovDocument (kind "doc") or a ZovCategory   *)
(* (kind "cat", with its dotted path).  When an exception is raised the    *)
(* stack is kept as it was at the raise and nothing runs any more.         *)

IFrame(kind, path, members) == [kind |-> kind, path |-> path, members |-> members, pos |-> 1]

ITop == istack[Len(istack)]

ipeek == IF ITop.pos <= Len(ITop.members) THEN ITop.members[ITop.pos] ELSE [node |-> "END"]

Evaluating == istate = "running" /\ ierr = NoError /\ istack # <<>>

\* the stack with the top frame moved past its current member
Advanced == [istack EXCEPT ![Len(istack)].pos = @ + 1]

\* line 39: the dotted path of a category
category_path(parent_path, name) ==
    IF parent_path # <<>> THEN parent_path \o <<".">> \o name ELSE name

EmptyEntry == [items |-> <<>>, categories |-> {}]

\* lines 40-41: the entry of a path is created on the first visit only
EnterEntryAfresh(d, path) ==
    [p \in DOMAIN d \cup {path} |-> IF p = path THEN EmptyEntry ELSE d[p]]
enter_entry(d, path) ==
    IF path \in DOMAIN d THEN d ELSE d @@ (path :> EmptyEntry)

\* line 71, line 58: dict[key] = value
AssignIfAbsent(mapping, key, value) ==
    IF key \in DOMAIN mapping THEN mapping ELSE mapping @@ (key :> value)
assign(mapping, key, value) ==
    [n \in DOMAIN mapping \cup {key} |-> IF n = key THEN value ELSE mapping[n]]

\* ZovInterpreter.eval(document)
Eval ==
    /\ istate = "idle" /\ doc # NoDoc
    /\ istate' = "running"
    /\ istack' = <<IFrame("doc", <<>>, doc.categories)>>
    /\ UNCHANGED <<doc, use_decimal, data, variables, ierr, environ, pvars, lvars, ovars>>

\* lines 34-35, 44-45: eval_variable
EvalVariable ==
    /\ Evaluating /\ ipeek.node = "ZovVariable"
    /\ LET value == eval_value(ipeek.value, variables, use_decimal)
       IN IF value.ok
          THEN variables' = assign(variables, ipeek.name, value.v) /\ ierr' = ierr
          ELSE ierr' = value.err /\ variables' = variables
    /\ istack' = Advanced
    /\ UNCHANGED <<doc, use_decimal, data, istate, environ, pvars, lvars, ovars>>

\* lines 36-41: a category of the document
EvalTopCategory ==
    /\ Evaluating /\ ipeek.node = "ZovCategory" /\ ITop.kind = "doc"
    /\ LET path == category_path(<<>>, ipeek.name)
       IN /\ data' = enter_entry(data, path)
          /\ istack' = Append(Advanced, IFrame("cat", path, ipeek.items))
    /\ UNCHANGED <<doc, use_decimal, variables, ierr, istate, environ, pvars, lvars, ovars>>

\* lines 46-48, then 39-41: a category inside a category
EvalSubCategory ==
    /\ Evaluating /\ ipeek.node = "ZovCategory" /\ ITop.kind = "cat"
    /\ LET path == category_path(ITop.path, ipeek.name)
           noted == [data EXCEPT ![ITop.path].categories = @ \cup {ipeek.name}]
       IN /\ data' = enter_entry(noted, path)
          /\ istack' = Append(Advanced, IFrame("cat", path, ipeek.items))
    /\ UNCHANGED <<doc, use_decimal, variables, ierr, istate, environ, pvars, lvars, ovars>>

\* lines 49-58: an item
EvalItem ==
    /\ Evaluating /\ ipeek.node = "ZovItem" /\ ITop.kind = "cat"
    /\ LET path == ITop.path
           evaluated_values == eval_values(ipeek.values, variables, use_decimal)
       IN IF ipeek.name \in DOMAIN data[path].items THEN
               /\ ierr' = Error("ValueError", "Duplicate item", ipeek.name)
               /\ data' = data
          ELSE IF ipeek.name \in data[path].categories THEN
               /\ ierr' = Error("ValueError", "Name collision", ipeek.name)
               /\ data' = data
          ELSE IF ~evaluated_values.ok THEN
               /\ ierr' = evaluated_values.err
               /\ data' = data
          ELSE /\ data' = [data EXCEPT ![path].items =
                                assign(@, ipeek.name, evaluated_values.v)]
               /\ ierr' = ierr
    /\ istack' = Advanced
    /\ UNCHANGED <<doc, use_decimal, variables, istate, environ, pvars, lvars, ovars>>

\* the loop of line 43 ends: eval(category) returns to its caller
EvalReturn ==
    /\ Evaluating /\ ipeek.node = "END" /\ Len(istack) > 1
    /\ istack' = SubSeq(istack, 1, Len(istack) - 1)
    /\ UNCHANGED <<doc, use_decimal, data, variables, ierr, istate, environ, pvars, lvars, ovars>>

\* the loop of line 33 ends: eval(document) returns
EvalDone ==
    /\ Evaluating /\ ipeek.node = "END" /\ Len(istack) = 1
    /\ istack' = <<>>
    /\ istate' = "done"
    /\ UNCHANGED <<doc, use_decimal, data, variables, ierr, environ, pvars, lvars, ovars>>

----------------------------------------------------------------------------
(* The documents the evaluation pass is run on *)

\* the longest document of the structural family
MaxMembers == 3

cA == <<"a">>
cX == <<"x">>
nX == <<"x">>
nY == <<"y">>
nN == <<"n">>
vV == <<"$", "v">>
vZ == <<"$", "z">>
vT == <<"$", "t">>
vU == <<"$", "u">>

\* members of a category: an item reading $v, a reassignment of $v, a
\* subcategory named as the item is
BodyPool ==
    { ZovItem(nX, <<VariableRef(vV)>>),
      ZovVariable(vV, IntV(3)),
      ZovCategory(cX, <<ZovItem(nY, <<VariableRef(vV)>>), ZovVariable(vV, IntV(4))>>) }

Bodies == {<<m>> : m \in BodyPool} \cup {<<m1, m2>> : m1 \in BodyPool, m2 \in BodyPool}

TopPool ==
    {ZovVariable(vV, IntV(1)), ZovVariable(vV, IntV(2))}
    \cup {ZovCategory(cA, body) : body \in Bodies}

StructureDocs ==
    {ZovDocument(ms) : ms \in UNION {[1..n -> TopPool] : n \in 1..MaxMembers}}

Operators == {"PLUS", "MINUS", "MULTIPLY", "DIVIDE", "MODULO"}

\* the operands of the binary expressions
Operands ==
    { IntV(6), IntV(0), IntV(-4), FloatV(3, 2), FloatV(0, 1),
      BoolV(TRUE), NoneV,
      StrV(<<"a", "b">>), StrV(<<"1", "2">>),
      Identifier(<<"f", "o", "o">>), Identifier(<<"b", "a", "r">>),
      Dated("date", <<"2", "0", "2", "4", "-", "0", "1", "-", "0", "2">>),
      Dated("time", <<"1", "2", ":", "3", "0">>),
      Quantity("duration", IntV(5), <<"s">>),
      Quantity("size", FloatV(3, 2), <<"K", "B">>),
      VariableRef(vZ), VariableRef(vU),
      ZovExpression("MINUS", IntV(6), IntV(6)) }

\* '$z = 0;' followed by one statement holding the expression
ExpressionDocs ==
    { ZovDocument(<<ZovVariable(vZ, IntV(0)), stmt>>) :
        stmt \in UNION { { ZovVariable(vT, e),
                           ZovCategory(cA, <<ZovItem(nN, <<e>>)>>),
                           ZovCategory(cA, <<ZovItem(nN, <<IntV(6), e>>)>>) } :
                         e \in {ZovExpression(op, l, r) :
                                   op \in Operators, l \in Operands, r \in Operands} } }

\* the parser at rest
ParserIdle ==
    /\ files = <<>> /\ links = <<>> /\ stack = <<>> /\ result = NoDoc /\ perr = NoError
    /\ probed = <<>> /\ opened = <<>> /\ lexed = <<>>

InitEval ==
    /\ ParserIdle
    /\ LexerIdle
    /\ OutputIdle
    /\ doc \in StructureDocs \cup ExpressionDocs
    /\ use_decimal \in BOOLEAN
    /\ istack = <<>> /\ data = <<>> /\ variables = <<>>
    /\ ierr = NoError /\ istate = "idle"
    /\ environ = <<>>

NextEval ==
    \/ Eval \/ EvalVariable \/ EvalTopCategory \/ EvalSubCategory \/ EvalItem
    \/ EvalReturn \/ EvalDone

SpecEval == InitEval /\ [][NextEval]_vars

----------------------------------------------------------------------------
(* Properties of the evaluation pass *)

\* the variables and items of a member list in document order, each with the
\* path of the category that holds it
RECURSIVE Leaves(_, _)
Leaves(members, path) ==
    IF members = <<>> THEN <<>>
    ELSE LET h == Head(members)
         IN (IF h.node = "ZovCategory"
             THEN Leaves(h.items, category_path(path, h.name))
             ELSE <<[stmt |-> h, path |-> path]>>)
            \o Leaves(Tail(members), path)

\* the statements reached so far, in flattened document order: what each
\* running eval() call has behind it; the doc itself once eval has returned
RECURSIVE ReachedUpTo(_)
ReachedUpTo(i) ==
    IF i = 0 THEN <<>>
    ELSE LET f == istack[i]
             behind == IF i < Len(istack) THEN f.pos - 2 ELSE f.pos - 1
         IN ReachedUpTo(i - 1) \o Leaves(SubSeq(f.members, 1, behind), f.path)

Reached ==
    IF istate = "done" THEN Leaves(doc.categories, <<>>) ELSE ReachedUpTo(Len(istack))

\* how many of them completed: all but the one that raised
Completed == IF ierr = NoError THEN Len(Reached) ELSE Len(Reached) - 1

IsVar(l)  == l.stmt.node = "ZovVariable"
IsItem(l) == l.stmt.node = "ZovItem"

\* the environment a statement of P meets: each name with the value of the
\* last assignment to it before position i
RECURSIVE EnvAt(_, _)
EnvAt(P, i) ==
    LET assigned(n) == {j \in 1..(i - 1) : IsVar(P[j]) /\ P[j].stmt.name = n}
        last(n) == CHOOSE j \in assigned(n) : \A l \in assigned(n) : l <= j
    IN [n \in {P[j].stmt.name : j \in {l \in 1..(i - 1) : IsVar(P[l])}} |->
          eval_value(P[last(n)].stmt.value, EnvAt(P, last(n)), use_decimal).v]

\* the values of the item at position i of P, computed where it stands
ValuesAt(P, i) == eval_values(P[i].stmt.values, EnvAt(P, i), use_decimal).v

\* the variables a value expression reads
RECURSIVE Refs(_)
Refs(value) ==
    CASE value.k = "variable_ref"  -> {value.name}
      [] value.k = "ZovExpression" -> Refs(value.left) \cup Refs(value.right)
      [] OTHER -> {}

StmtRefs(stmt) ==
    IF stmt.node = "ZovVariable" THEN Refs(stmt.value)
    ELSE UNION {Refs(stmt.values[i]) : i \in 1..Len(stmt.values)}

\* the statement that raised
Failed == Reached[Len(Reached)]

\* an item that is evaluated: its name is neither stored nor a subcategory
Fresh(l) ==
    IsItem(l) => /\ l.stmt.name \notin DOMAIN data[l.path].items
                 /\ l.stmt.name \notin data[l.path].categories

\* C5: the environment is one flat mapping holding, for each name, the value
\* of the most recent assignment in flattened document order; every stored
\* item holds the values its expressions had where the item stands, whatever
\* was assigned later; a statement that is evaluated and reads a name never
\* assigned before it raises the undefined-variable error.
C5_FlatEnvironment ==
    LET P == Reached IN
    /\ variables = EnvAt(P, Completed + 1)
    /\ \A i \in 1..Completed :
          IsItem(P[i]) => data[P[i].path].items[P[i].stmt.name] = ValuesAt(P, i)
    /\ (ierr.msg = "Undefined variable")
       <=> (ierr # NoError /\ Fresh(Failed)
            /\ StmtRefs(Failed.stmt) \ DOMAIN EnvAt(P, Len(P)) # {})
    /\ (ierr.msg = "Undefined variable")
       => ierr.arg \in StmtRefs(Failed.stmt) \ DOMAIN EnvAt(P, Len(P))

\* C5 witness: an item of a subcategory stored the value assigned at top
\* level, and the variable was reassigned twice since
C5_Witness ==
    /\ istate = "done" /\ ierr = NoError
    /\ <<"a", ".", "x">> \in DOMAIN data
    /\ nY \in DOMAIN data[<<"a", ".", "x">>].items
    /\ data[<<"a", ".", "x">>].items[nY] = <<IntV(1)>>
    /\ variables[vV] = IntV(2)

\* C6: one entry per path holds exactly the items of all the declarations of
\* the path reached so far; the duplicate-item error is raised exactly when an
\* item is reached whose name the path already stores, and the stored values
\* stay those of the first item.
C6_OneEntryPerPath ==
    LET P == Reached
        items(p) == {i \in 1..Completed : IsItem(P[i]) /\ P[i].path = p}
    IN
    /\ \A i \in 1..Len(P) : IsItem(P[i]) => P[i].path \in DOMAIN data
    /\ \A p \in DOMAIN data :
          DOMAIN data[p].items = {P[i].stmt.name : i \in items(p)}
    /\ \A i, j \in 1..Completed :
          (IsItem(P[i]) /\ IsItem(P[j]) /\ P[i].path = P[j].path
           /\ P[i].stmt.name = P[j].stmt.name) => i = j
    /\ (ierr.msg = "Duplicate item")
       <=> (ierr # NoError /\ IsItem(Failed)
            /\ \E i \in items(Failed.path) : P[i].stmt.name = Failed.stmt.name)
    /\ (ierr.msg = "Duplicate item")
       => \E i \in items(Failed.path) :
             /\ P[i].stmt.name = Failed.stmt.name
             /\ data[Failed.path].items[Failed.stmt.name] = ValuesAt(P, i)

\* C6 witness: the second declaration of a path repeated an item of the first,
\* with another value of $v by then
C6_Witness ==
    /\ ierr.msg = "Duplicate item"
    /\ Len(istack) = 2 /\ istack[1].pos = 4
    /\ data[cA].items[nX] = <<IntV(1)>>
    /\ variables[vV] = IntV(3)

\* C7 as stated: once an item and a subcategory of one path bear the same
\* name, in either order, the evaluation has raised the name-collision error.
C7_CollisionEitherOrder ==
    \A i \in 1..Len(Reached) :
        LET l == Reached[i]
        IN (IsItem(l) /\ l.path \in DOMAIN data /\ l.stmt.name \in data[l.path].categories)
           => ierr.msg = "Name collision"

----------------------------------------------------------------------------
(* Properties of binary expressions.  They speak of the step that          *)
(* evaluates a statement whose last value is a binary expression: the      *)
(* operands are taken as they evaluate before the step, the outcome as it  *)
(* stands after it.                                                        *)

\* the statement about to be evaluated holds a binary expression
CurrentExpr ==
    IF ipeek.node = "ZovVariable" THEN ipeek.value
    ELSE ipeek.values[Len(ipeek.values)]

AtExpression ==
    /\ Evaluating /\ ipeek.node \in {"ZovVariable", "ZovItem"}
    /\ CurrentExpr.k = "ZovExpression"
    /\ ipeek.node = "ZovItem" => Fresh([stmt |-> ipeek, path |-> ITop.path])

LeftOperand  == eval_value(CurrentExpr.left, variables, use_decimal)
RightOperand == eval_value(CurrentExpr.right, variables, use_decimal)

\* both operands evaluate
OperandsEvaluate == AtExpression /\ LeftOperand.ok /\ RightOperand.ok

IsIdentifier(v) == v.k = "identifier"

\* the step stores what the statement computes under its name
Stored(v) ==
    IF ipeek.node = "ZovVariable" THEN variables'[ipeek.name] = v
    ELSE LET values == data'[ITop.path].items[ipeek.name]
         IN values[Len(values)] = v

\* C8 as stated: an identifier operand makes every operator raise the error
\* naming the identifier, + with a string included.
C8_IdentifierAlwaysRaises ==
    [][ LET l == LeftOperand.v
            r == RightOperand.v
        IN (OperandsEvaluate /\ (IsIdentifier(l) \/ IsIdentifier(r)))
          => /\ ierr'.msg = "Cannot perform arithmetic on identifier"
             /\ ierr'.arg = (IF IsIdentifier(l) THEN l.value ELSE r.value) ]_vars

\* C8 amended: an identifier operand makes - * / % raise the error naming the
\* identifier whatever the other operand is, and + too unless the other
\* operand is a string; + of an identifier and a string raises nothing and
\* yields the identifier's bare text joined with the string.
C8_IdentifierRaisesUnlessConcat ==
    [][ LET l == LeftOperand.v
            r == RightOperand.v
        IN (OperandsEvaluate /\ (IsIdentifier(l) \/ IsIdentifier(r)))
          => IF CurrentExpr.operator = "PLUS" /\ (l.k = "str" \/ r.k = "str")
             THEN /\ ierr' = NoError
                  /\ Stored(StrV((IF IsIdentifier(l) THEN l.value ELSE l.s)
                                 \o (IF IsIdentifier(r) THEN r.value ELSE r.s)))
             ELSE /\ ierr'.kind = "ValueError"
                  /\ ierr'.msg = "Cannot perform arithmetic on identifier"
                  /\ ierr'.arg = (IF IsIdentifier(l) THEN l.value ELSE r.value)
                  /\ data' = data /\ variables' = variables ]_vars

\* C8 witness: 'string - bar' raised the error naming bar, in precise mode
C8_Witness ==
    /\ use_decimal
    /\ ierr.msg = "Cannot perform arithmetic on identifier"
    /\ ierr.arg = <<"b", "a", "r">>
    /\ Failed.stmt.node = "ZovItem"
    /\ Failed.stmt.values[Len(Failed.stmt.values)]
         = ZovExpression("MINUS", StrV(<<"a", "b">>), Identifier(<<"b", "a", "r">>))

\* a value the language does not count as a number
NonNumber(v) ==
    v.k \in {"bool", "None", "str", "date", "datetime", "time", "duration", "size"}

\* C9 as stated: with no identifier among the operands, - * / %, and + when
\* neither operand is a string, raise the non-numeric error as soon as an
\* operand is a boolean, null, a string or a date/time/duration/size literal,
\* in both modes.
C9_NonNumericRaises ==
    [][ LET l == LeftOperand.v
            r == RightOperand.v
        IN (/\ OperandsEvaluate
           /\ ~IsIdentifier(l) /\ ~IsIdentifier(r)
           /\ ~(CurrentExpr.operator = "PLUS" /\ (l.k = "str" \/ r.k = "str"))
           /\ (NonNumber(l) \/ NonNumber(r)))
          => /\ ierr'.kind = "ValueError"
             /\ ierr'.msg = "Cannot perform arithmetic on non-numeric values" ]_vars

\* a number: an int or a float, or the Decimal a nested expression yields in
\* precise mode
IsNumber(v) == v.k \in {"int", "float", "Decimal"}
IsZeroNumber(v) == (v.k = "int" /\ v.v = 0) \/ (v.k \in {"float", "Decimal"} /\ v.n = 0)

\* C10: on numbers, / and % by zero raise the division-by-zero and the
\* modulo-by-zero error respectively, in both modes, and the step stores
\* nothing for the item or the variable.
C10_ZeroDivisorRaises ==
    [][ LET l == LeftOperand.v
            r == RightOperand.v
        IN (/\ OperandsEvaluate
           /\ IsNumber(l) /\ IsNumber(r)
           /\ CurrentExpr.operator \in {"DIVIDE", "MODULO"}
           /\ IsZeroNumber(r))
          => /\ ierr'.kind = "ValueError"
             /\ ierr'.msg = (IF CurrentExpr.operator = "DIVIDE"
                             THEN "Division by zero" ELSE "Modulo by zero")
             /\ data' = data /\ variables' = variables ]_vars

\* C10 witness: '6, 1.5 % (6 - 6)' raised in precise mode and the item, whose
\* first value had been computed, is not stored
C10_Witness ==
    /\ use_decimal
    /\ ierr.msg = "Modulo by zero"
    /\ Failed.stmt.node = "ZovItem" /\ Len(Failed.stmt.values) = 2
    /\ Failed.stmt.values[2].left = FloatV(3, 2)
    /\ Failed.stmt.values[2].right = ZovExpression("MINUS", IntV(6), IntV(6))
    /\ data[cA].items = <<>>

----------------------------------------------------------------------------
(* Integer arithmetic in non-precise mode: the evaluation pass on          *)
(* documents holding one expression on integer literals, the dividends of  *)
(* / reaching past 2^53.                                                   *)

\* the divisors 1..MaxDivisor, the dividends 2^52 .. 2^52 + MaxOffset and
\* 2^53 .. 2^53 + MaxOffset
MaxDivisor == 3
MaxOffset == 4

BigDividends ==
    {BigIntV(WAdd(TwoTo52, n)) : n \in 0..MaxOffset}
    \cup {BigIntV(WAdd(TwoTo53, n)) : n \in 0..MaxOffset}

SmallInts == {IntV(7), IntV(6), IntV(-4)}

IntegerExpressions ==
    {ZovExpression("DIVIDE", l, IntV(b)) : l \in BigDividends, b \in 1..MaxDivisor}
    \cup {ZovExpression(op, l, IntV(b)) :
             op \in Operators, l \in SmallInts, b \in (1..MaxDivisor) \cup {-4}}

\* the expression as the value of a variable, of an item, of an item of a
\* subcategory
IntegerDocs ==
    UNION { { ZovDocument(<<ZovVariable(vT, e)>>),
              ZovDocument(<<ZovCategory(cA, <<ZovItem(nN, <<e>>)>>)>>),
              ZovDocument(<<ZovCategory(cA, <<ZovCategory(cX, <<ZovItem(nN, <<e>>)>>)>>)>>) } :
            e \in IntegerExpressions }

InitInteger ==
    /\ ParserIdle
    /\ LexerIdle
    /\ OutputIdle
    /\ doc \in IntegerDocs
    /\ use_decimal = FALSE
    /\ istack = <<>> /\ data = <<>> /\ variables = <<>>
    /\ ierr = NoError /\ istate = "idle"
    /\ environ = <<>>

SpecInteger == InitInteger /\ [][NextEval]_vars

\* an integer literal
IsIntLiteral(v) == v.k \in {"int", "bigint"}

\* the value the step stores under the name of the statement
StoredValue ==
    IF ipeek.node = "ZovVariable" THEN variables'[ipeek.name]
    ELSE LET values == data'[ITop.path].items[ipeek.name]
         IN values[Len(values)]

\* floor(a / b) and a - b * floor(a / b) of the integers a and b, b # 0
FloorDiv(a, b) == IF b > 0 THEN a \div b ELSE (-a) \div (-b)
FloorMod(a, b) == a - b * FloorDiv(a, b)

\* b divides the literal l exactly, and the quotient then
Divides(l, b) ==
    IF l.k = "bigint" THEN WDivMod(l.w, b).r = 0 ELSE FloorMod(l.v, b) = 0
Quotient(l, b) ==
    IF l.k = "bigint" THEN BigIntV(WDivMod(l.w, b).q) ELSE IntV(FloorDiv(l.v, b))

\* a float that is no whole number
IsFractionalFloat(v) ==
    \/ v.k = "float" /\ v.d # 1
    \/ v.k = "bigfloat" /\ v.shift > 0

\* C11 as stated: in non-precise mode, on integer literals a and b (b # 0),
\* + - * % store the native integer result; a / b stores the integer
\* quotient when b divides a exactly and a float that is no whole number
\* otherwise.
C11_IntegerArithmetic ==
    [][ LET l == LeftOperand.v
            r == RightOperand.v
            op == CurrentExpr.operator
        IN (/\ OperandsEvaluate /\ ~use_decimal
            /\ IsIntLiteral(l) /\ r.k = "int" /\ r.v # 0)
           => /\ ierr' = NoError
              /\ CASE op = "PLUS"     -> StoredValue = IntV(l.v + r.v)
                   [] op = "MINUS"    -> StoredValue = IntV(l.v - r.v)
                   [] op = "MULTIPLY" -> StoredValue = IntV(l.v * r.v)
                   [] op = "MODULO"   -> StoredValue = IntV(FloorMod(l.v, r.v))
                   [] op = "DIVIDE"   ->
                        IF Divides(l, r.v) THEN StoredValue = Quotient(l, r.v)
                        ELSE IsFractionalFloat(StoredValue) ]_vars

----------------------------------------------------------------------------
(* Function calls: the evaluation pass on '$z = "bo"; a { x { n = f(...); } }' *)
(* for every function name and argument list below, with the environment   *)
(* variable X set or unset.                                                *)

\* the arguments past the second of a call
MaxExtraArgs == 1

envX == <<"X">>
envText == <<"v", "a", "l">>

FunctionNames == {fn_env, fn_concat, fn_join, fn_upper, fn_lower, <<"f", "r", "o", "b">>}

\* the first and the second argument of a call
Arguments ==
    { StrV(envX), NoneV, IntV(5), BoolV(TRUE),
      Identifier(<<"f", "o", "o">>),
      Dated("date", <<"2", "0", "2", "4", "-", "0", "1", "-", "0", "2">>),
      Quantity("duration", IntV(5), <<"s">>),
      Quantity("size", FloatV(3, 2), <<"K", "B">>),
      VariableRef(vZ), VariableRef(vU),
      ZovExpression("PLUS", IntV(1), IntV(2)) }

ArgumentLists ==
    {<<>>} \cup {<<x>> : x \in Arguments}
    \cup UNION { {<<x, y>> \o [i \in 1..n |-> IntV(5)] : x \in Arguments, y \in Arguments} :
                 n \in 0..MaxExtraArgs }

FunctionDocs ==
    { ZovDocument(<<ZovVariable(vZ, StrV(<<"b", "o">>)),
                    ZovCategory(cA, <<ZovCategory(cX,
                        <<ZovItem(nN, <<ZovFunctionCall(f, args)>>)>>)>>)>>) :
        f \in FunctionNames, args \in ArgumentLists }

InitFunctions ==
    /\ ParserIdle
    /\ LexerIdle
    /\ OutputIdle
    /\ doc \in FunctionDocs
    /\ use_decimal \in BOOLEAN
    /\ environ \in {<<>>, (envX :> envText)}
    /\ istack = <<>> /\ data = <<>> /\ variables = <<>>
    /\ ierr = NoError /\ istate = "idle"

SpecFunctions == InitFunctions /\ [][NextEval]_vars

\* the statement about to be evaluated holds a call of the function f whose
\* arguments all evaluate
AtCall(f) ==
    /\ Evaluating /\ ipeek.node \in {"ZovVariable", "ZovItem"}
    /\ CurrentExpr.k = "ZovFunctionCall" /\ CurrentExpr.name = f
    /\ ipeek.node = "ZovItem" => Fresh([stmt |-> ipeek, path |-> ITop.path])
    /\ eval_values(CurrentExpr.args, variables, use_decimal).ok

\* the evaluated arguments of the call
CallArgs == eval_values(CurrentExpr.args, variables, use_decimal).v

\* C12 as stated: env(name) with the variable unset raises; env(name, default)
\* with the variable unset yields the evaluated default unchanged, whatever
\* the default is, null included; with the variable set both forms yield the
\* variable's text; any other number of arguments raises the arity error.
C12_EnvDefault ==
    [][ AtCall(fn_env) =>
          LET args == CallArgs
              set(name) == name.s \in DOMAIN environ
          IN /\ Len(args) \notin {1, 2}
                => ierr'.msg = "env() expects 1 or 2 arguments"
             /\ (Len(args) \in {1, 2} /\ IsStr(args[1]) /\ set(args[1]))
                => ierr' = NoError /\ StoredValue = StrV(environ[args[1].s])
             /\ (Len(args) = 1 /\ IsStr(args[1]) /\ ~set(args[1]))
                => ierr'.msg = "Environment variable not found"
             /\ (Len(args) = 2 /\ IsStr(args[1]) /\ ~set(args[1]))
                => ierr' = NoError /\ StoredValue = args[2] ]_vars

\* C13 as stated: upper(x) and lower(x) store the case-folded display
\* rendering of x, the rendering concat and join apply to the same argument:
\* <number><unit> for a duration or a size, the literal text for a date, the
\* bare text for an identifier.
C13_UpperLowerRendering ==
    [][ /\ (AtCall(fn_upper) /\ Len(CallArgs) = 1)
            => /\ ierr' = NoError
               /\ StoredValue = StrV(upper(display_all(CallArgs, use_decimal)[1]))
        /\ (AtCall(fn_lower) /\ Len(CallArgs) = 1)
            => /\ ierr' = NoError
               /\ StoredValue = StrV(lower(display_all(CallArgs, use_decimal)[1])) ]_vars

----------------------------------------------------------------------------
(* Interpolated strings: the evaluation pass on                            *)
(* '$name = ...; a { x { n = "..."; } }' for the interpolated literals     *)
(* below, with $name a string, a duration, or not assigned.                *)

vName == <<"$", "n", "a", "m", "e">>

\* "hi ${upper($name)}"
HiLiteral == <<"\"", "h", "i", " ", "$", "{", "u", "p", "p", "e", "r", "(", "$", "n", "a", "m", "e", ")", "}", "\"">>

\* the interpolated string literals, as written in the source text
InterpolatedLiterals ==
    { HiLiteral,
      <<"\"", "$", "n", "a", "m", "e", "!", "\"">>,
      <<"\"", "a", "$", "n", "o", "p", "e", "\"">>,
      <<"\"", "$", "{", "n", "a", "m", "e", "}", "\"">>,
      <<"\"", "$", "{", "n", "o", "p", "e", "}", "\"">>,
      <<"\"", "$", "{", "1", " ", "+", " ", "2", "}", "\"">>,
      <<"\"", "$", "{", "$", "n", "o", "p", "e", "}", "\"">>,
      <<"\"", "$", "{", "1", " ", "+", "}", "\"">>,
      <<"\"", "$", "{", "@", "}", "\"">>,
      <<"\"", "x", "\\", "n", "$", "n", "a", "m", "e", "\"">>,
      <<"\"", "$", "n", "a", "m", "e", "-", "$", "{", "5", "s", "}", "\"">>,
      <<"\"", "$", "{", "f", "o", "o", " ", "+", " ", "1", "}", "\"">>,
      <<"\"", "$", "x", "$", "{", "a", "\"">>,
      <<"\"", "$", "{", "\"", "$", "n", "a", "m", "e", "\"", "}", "\"">> }

\* the node parse_primary makes of a literal that lexes and parses
InterpolatedNodes ==
    { parse_tokens(lex(l)).v : l \in {x \in InterpolatedLiterals : parse_tokens(lex(x)).ok} }

\* the statements before the category: $name assigned or not
NameAssignments ==
    { <<>>, <<ZovVariable(vName, StrV(<<"b", "o">>))>>,
      <<ZovVariable(vName, Quantity("duration", IntV(5), <<"s">>))>> }

InterpolatedDocs ==
    { ZovDocument(pre \o <<ZovCategory(cA, <<ZovCategory(cX, <<ZovItem(nN, <<s>>)>>)>>)>>) :
        pre \in NameAssignments, s \in InterpolatedNodes }

InitInterpolated ==
    /\ ParserIdle
    /\ LexerIdle
    /\ OutputIdle
    /\ doc \in InterpolatedDocs
    /\ use_decimal \in BOOLEAN
    /\ istack = <<>> /\ data = <<>> /\ variables = <<>>
    /\ ierr = NoError /\ istate = "idle"
    /\ environ = <<>>

SpecInterpolated == InitInterpolated /\ [][NextEval]_vars

\* the item about to be evaluated holds an interpolated string
AtInterpolated ==
    /\ Evaluating /\ ipeek.node = "ZovItem"
    /\ CurrentExpr.k = "ZovInterpolatedString"
    /\ Fresh([stmt |-> ipeek, path |-> ITop.path])

\* the text of one part, or the error it raises: a text part verbatim; a
\* $name part the display rendering of the variable, an error if it is not
\* defined; a ${...} part lexed, parsed and evaluated, a bare identifier id
\* rendered as the variable $id if defined and as the text id otherwise
PartRendering(part) ==
    CASE part.type = "text" -> Ok(part.value)
      [] part.type = "var" ->
            IF part.value \in DOMAIN variables
            THEN Ok(display(variables[part.value], use_decimal))
            ELSE Raise("ValueError", "Undefined variable in interpolated string", part.value)
      [] part.type = "expr" ->
            LET lexed_part == lex(part.value)
                parsed == IF lexed_part.ok THEN parse_expression(lexed_part.v, 1) ELSE lexed_part
                value == IF parsed.ok THEN eval_value(parsed.v, variables, use_decimal) ELSE parsed
            IN IF ~value.ok THEN value
               ELSE IF value.v.k # "identifier" THEN Ok(display(value.v, use_decimal))
               ELSE IF (<<"$">> \o value.v.value) \in DOMAIN variables
               THEN Ok(display(variables[<<"$">> \o value.v.value], use_decimal))
               ELSE Ok(value.v.value)

\* C14: an interpolated string evaluates to the concatenation of the texts
\* of its parts in order, and raises the error of the first part that raises.
C14_Interpolation ==
    [][ AtInterpolated =>
          LET parts == CurrentExpr.parts
              texts == [i \in 1..Len(parts) |-> PartRendering(parts[i])]
              failing == {i \in 1..Len(parts) : ~texts[i].ok}
          IN IF failing = {}
             THEN /\ ierr' = NoError
                  /\ StoredValue = StrV(str_join(<<>>, [i \in 1..Len(parts) |-> texts[i].v]))
             ELSE ierr' = texts[CHOOSE i \in failing : \A j \in failing : i <= j].err ]_vars

\* C14 witness: with $name = "bo" assigned before, "hi ${upper($name)}" was
\* evaluated to "hi BO"
C14_Witness ==
    /\ istate = "done" /\ ierr = NoError
    /\ variables = (vName :> StrV(<<"b", "o">>))
    /\ doc.categories[2].items[1].items[1].values = <<parse_tokens(lex(HiLiteral)).v>>
    /\ data[<<"a", ".", "x">>].items[nN] = <<StrV(<<"h", "i", " ", "B", "O">>)>>

----------------------------------------------------------------------------
(* Output assembly: ZovInterpreter.to_dict (src/zov/interpreter.py         *)
(* 231-268), called by load_zov once eval has returned.  A value of the    *)
(* output is a list of simplified values or a dict of such values.         *)

ListOf(values) == [k |-> "list", values |-> values]
DictOf(entries) == [k |-> "dict", entries |-> entries]

\* the characters of a path in the order of their code points
OrdChars ==
    <<".">> \o [i \in 1..10 |-> Digit(i - 1)] \o UpperLetters \o <<"_">> \o LowerLetters

ord(c) == CHOOSE i \in 1..Len(OrdChars) : OrdChars[i] = c

\* a < b of two str
RECURSIVE str_less(_, _)
str_less(a, b) ==
    IF a = <<>> THEN b # <<>>
    ELSE IF b = <<>> THEN FALSE
    ELSE IF Head(a) = Head(b) THEN str_less(Tail(a), Tail(b))
    ELSE ord(Head(a)) < ord(Head(b))

\* the paths in descending order
RECURSIVE sorted_descending(_)
sorted_descending(paths) ==
    IF paths = {} THEN <<>>
    ELSE LET greatest == CHOOSE x \in paths : \A y \in paths \ {x} : str_less(y, x)
         IN <<greatest>> \o sorted_descending(paths \ {greatest})

\* line 244: sorted(self.data.items()), the keys of data in ascending order
RECURSIVE sorted(_)
sorted(paths) ==
    IF paths = {} THEN <<>>
    ELSE LET least == CHOOSE x \in paths : \A y \in paths \ {x} : str_less(x, y)
         IN <<least>> \o sorted(paths \ {least})

\* line 245: path.split('.')
RECURSIVE split_dot(_)
split_dot(path) ==
    IF span_until(path, 1, {"."}) > Len(path) THEN <<path>>
    ELSE <<SubSeq(path, 1, span_until(path, 1, {"."}) - 1)>>
         \o split_dot(SubSeq(path, span_until(path, 1, {"."}) + 1, Len(path)))

\* lines 261-264: the items of a path, each value simplified
simplified_items(items, precise) ==
    [key \in DOMAIN items |->
        ListOf([i \in 1..Len(items[key]) |-> simplify_value(items[key][i], precise)])]

\* ZovInterpreter._deep_merge(target, source): the target after the merge
RECURSIVE deep_merge(_, _)
deep_merge(target, merged_in) ==
    [key \in DOMAIN target \cup DOMAIN merged_in |->
        IF key \notin DOMAIN merged_in THEN target[key]
        ELSE IF key \in DOMAIN target /\ target[key].k = "dict" /\ merged_in[key].k = "dict"
             THEN DictOf(deep_merge(target[key].entries, merged_in[key].entries))
             ELSE merged_in[key]]

\* the dict `current` with the value of key replaced by the outcome below it
put(current, key, below) ==
    IF ~below.ok THEN below
    ELSE Ok([n \in DOMAIN current \cup {key} |-> IF n = key THEN DictOf(below.v) ELSE current[n]])

\* lines 246-266 on the dict `current`: the walk along parts, the final key
\* and the merge of the items
RECURSIVE nest(_, _, _)
nest(current, parts, items) ==
    IF Len(parts) > 1 THEN
        IF Head(parts) \notin DOMAIN current
        THEN put(current, Head(parts), nest(<<>>, Tail(parts), items))
        ELSE IF current[Head(parts)].k # "dict"
        THEN Raise("ValueError", "Cannot create nested structure", Head(parts))
        ELSE put(current, Head(parts), nest(current[Head(parts)].entries, Tail(parts), items))
    ELSE IF Head(parts) \notin DOMAIN current
    THEN put(current, Head(parts), Ok(deep_merge(<<>>, items)))
    ELSE IF current[Head(parts)].k # "dict"
    THEN Raise("ValueError", "Cannot create category: name already used as an item", Head(parts))
    ELSE put(current, Head(parts), Ok(deep_merge(current[Head(parts)].entries, items)))

\* interpreter.to_dict() of load_zov, line 242
ToDict ==
    /\ istate = "done" /\ ierr = NoError /\ ostate = "idle"
    /\ ostate' = "assembling"
    /\ out' = <<>> /\ assembled' = <<>>
    /\ UNCHANGED <<oerr, pvars, ivars, lvars>>

\* one round of the loop of line 244
AssemblePath ==
    /\ ostate = "assembling" /\ Len(assembled) < Len(sorted(DOMAIN data))
    /\ LET path == sorted(DOMAIN data)[Len(assembled) + 1]
           merged == nest(out, split_dot(path), simplified_items(data[path].items, use_decimal))
       IN IF merged.ok
          THEN /\ out' = merged.v /\ assembled' = Append(assembled, path)
               /\ UNCHANGED <<oerr, ostate>>
          ELSE /\ oerr' = merged.err /\ ostate' = "done"
               /\ UNCHANGED <<out, assembled>>
    /\ UNCHANGED <<pvars, ivars, lvars>>

\* line 268: return result
ReturnDict ==
    /\ ostate = "assembling" /\ Len(assembled) = Len(sorted(DOMAIN data))
    /\ ostate' = "done"
    /\ UNCHANGED <<out, assembled, oerr, pvars, ivars, lvars>>

appName == <<"a", "p", "p">>
nName == <<"n", "a", "m", "e">>
nPort == <<"p", "o", "r", "t">>
cAB == <<"a", "b">>
nB == <<"b">>
nC == <<"c">>

\* app { name = "x"; port = 8080; }
AppDoc ==
    ZovDocument(<<ZovCategory(appName,
        <<ZovItem(nName, <<StrV(<<"x">>)>>), ZovItem(nPort, <<IntV(8080)>>)>>)>>)

\* the documents evaluated before the output is assembled:
\*   $z = 5s; a { x = 1, foo; x { n = $z; } }
\*   a { x { n = 2; } b = 1.5KB; } a { c = 2024-01-02; }
\*   a { b { } } ab { c = 1 + 2; }
\*   a { b { c { n = true, null; } } }
\*   a { x { } } a { x { n = 1; } }
OutputDocs ==
    { AppDoc,
      ZovDocument(<<ZovVariable(vZ, Quantity("duration", IntV(5), <<"s">>)),
                    ZovCategory(cA, <<ZovItem(cX, <<IntV(1), Identifier(<<"f", "o", "o">>)>>),
                                      ZovCategory(cX, <<ZovItem(nN, <<VariableRef(vZ)>>)>>)>>)>>),
      ZovDocument(<<ZovCategory(cA, <<ZovCategory(cX, <<ZovItem(nN, <<IntV(2)>>)>>),
                                      ZovItem(nB, <<Quantity("size", FloatV(3, 2), <<"K", "B">>)>>)>>),
                    ZovCategory(cA, <<ZovItem(nC,
                        <<Dated("date", <<"2", "0", "2", "4", "-", "0", "1", "-", "0", "2">>)>>)>>)>>),
      ZovDocument(<<ZovCategory(cA, <<ZovCategory(nB, <<>>)>>),
                    ZovCategory(cAB, <<ZovItem(nC, <<ZovExpression("PLUS", IntV(1), IntV(2))>>)>>)>>),
      ZovDocument(<<ZovCategory(cA, <<ZovCategory(nB, <<ZovCategory(nC,
                        <<ZovItem(nN, <<BoolV(TRUE), NoneV>>)>>)>>)>>)>>),
      ZovDocument(<<ZovCategory(cA, <<ZovCategory(cX, <<>>)>>),
                    ZovCategory(cA, <<ZovCategory(cX, <<ZovItem(nN, <<IntV(1)>>)>>)>>)>>) }

InitOutput ==
    /\ ParserIdle
    /\ LexerIdle
    /\ OutputIdle
    /\ doc \in OutputDocs
    /\ use_decimal \in BOOLEAN
    /\ istack = <<>> /\ data = <<>> /\ variables = <<>>
    /\ ierr = NoError /\ istate = "idle"
    /\ environ = <<>>

NextOutput == NextEval \/ ToDict \/ AssemblePath \/ ReturnDict

SpecOutput == InitOutput /\ [][NextOutput]_vars

\* the value of the output under the keys, NoExpr when a key is missing
RECURSIVE Lookup(_, _)
Lookup(entries, keys) ==
    IF Head(keys) \notin DOMAIN entries THEN NoExpr
    ELSE IF Len(keys) = 1 THEN entries[Head(keys)]
    ELSE IF entries[Head(keys)].k # "dict" THEN NoExpr
    ELSE Lookup(entries[Head(keys)].entries, Tail(keys))

StructureConflict ==
    oerr.kind = "ValueError"
    /\ oerr.msg \in {"Cannot create nested structure",
                     "Cannot create category: name already used as an item"}

\* C15: the paths are merged in ascending lexicographic order; to_dict ends
\* either with a structure-conflict error or with every path merged, and
\* then every item n stored at a path p1.p2...pk is found at
\* out[p1][p2]...[pk][n] as the list of its simplified values.
C15_OutputAssembly ==
    /\ \A i \in 1..Len(assembled) :
          /\ assembled[i] \in DOMAIN data
          /\ \A j \in 1..(i - 1) : str_less(assembled[j], assembled[i])
          /\ \A p \in DOMAIN data : str_less(p, assembled[i]) => \E j \in 1..(i - 1) : assembled[j] = p
    /\ ostate = "done" =>
          \/ StructureConflict
          \/ /\ oerr = NoError
             /\ \A p \in DOMAIN data :
                   /\ Lookup(out, split_dot(p)).k = "dict"
                   /\ \A n \in DOMAIN data[p].items :
                         Lookup(out, Append(split_dot(p), n))
                            = ListOf([i \in 1..Len(data[p].items[n]) |->
                                        simplify_value(data[p].items[n][i], use_decimal)])

\* C15 witness: app { name = "x"; port = 8080; } gave
\* {"app": {"name": ["x"], "port": [8080]}}
C15_Witness ==
    /\ doc = AppDoc /\ ostate = "done" /\ oerr = NoError
    /\ out = (appName :> DictOf((nName :> ListOf(<<StrV(<<"x">>)>>))
                                @@ (nPort :> ListOf(<<IntV(8080)>>))))

----------------------------------------------------------------------------
(* The lexer and parse_expression on one text, as lines 145-147 of        *)
(* interpreter.py run them: lex() yields its tokens one match at a time,   *)
(* Parser(tokens) takes them all, parse_expression() returns a node.       *)

\* the characters of the content of a string literal: at most this many
MaxContentLen == 3

StringAlphabet == {BS, DQ, "n", "t", "a"}

\* the texts between the quotes
StringContents ==
    UNION { [1..n -> StringAlphabet] : n \in 0..MaxContentLen }

Quoted(content) == <<DQ>> \o content \o <<DQ>>

\* literals of every kind but string, as written in a source text
LiteralTexts ==
    {
      <<"5">>,
      <<"-", "5">>,
      <<"1", ".", "5">>,
      <<"0", ".", "2", "5">>,
      <<"t", "r", "u", "e">>,
      <<"f", "a", "l", "s", "e">>,
      <<"2", "0", "2", "4", "-", "0", "1", "-", "0", "2">>,
      <<"2", "0", "2", "4", "-", "0", "1", "-", "0", "2", "T", "1", "0", ":", "2", "0", ":", "3", "0">>,
      <<"1", "2", ":", "3", "0">>,
      <<"1", "2", ":", "3", "0", ":", "4", "5">>,
      <<"5", "s">>,
      <<"1", ".", "5", "m", "s">>,
      <<"5", "K", "B">>,
      <<"1", ".", "5", "K", "i", "B">>,
      <<"3", "w">> }

\* the values the lexer gives these literals
LiteralValues == { lex(t).v[1].value : t \in LiteralTexts }

\* expressions, some of them malformed
ExpressionTexts ==
    {
      <<"1", " ", "+", " ", "2", " ", "*", " ", "3">>,
      <<"(", "1", " ", "+", " ", "2", ")", " ", "*", " ", "3">>,
      <<"u", "p", "p", "e", "r", "(", "$", "n", "a", "m", "e", ")">>,
      <<"j", "o", "i", "n", "(", "\"", "-", "\"", ",", " ", "1", ",", " ", "f", "o", "o", ")">>,
      <<"1", " ", "+">>,
      <<"f", "(", "1", " ", "2", ")">>,
      <<"a", " ", "@">>,
      <<"#", " ", "c", "\n", "5">>,
      <<"\"", "$", "a", "\"", " ", "+", " ", "1">> }

\* the texts handed to lex(): literals, the display renderings of their
\* values, quoted strings, expressions
LexSources ==
    LiteralTexts \cup { display(v, FALSE) : v \in LiteralValues }
    \cup { Quoted(c) : c \in StringContents } \cup ExpressionTexts

InitLex ==
    /\ ParserIdle
    /\ InterpreterIdle
    /\ OutputIdle
    /\ source \in LexSources
    /\ lpos = 1 /\ ltokens = <<>> /\ lerr = NoError /\ lexpr = NoExpr

\* one round of the loop of lexer.py line 45
LexStep ==
    /\ lerr = NoError /\ lexpr = NoExpr /\ lpos <= Len(source)
    /\ LET m == lex_match(source, lpos)
       IN IF m.out.ok
          THEN /\ ltokens' = ltokens \o m.out.v /\ lpos' = m.end
               /\ lerr' = lerr
          ELSE /\ lerr' = m.out.err
               /\ UNCHANGED <<ltokens, lpos>>
    /\ UNCHANGED <<source, lexpr, pvars, ivars, ovars>>

\* Parser(tokens).parse_expression() once lex() is exhausted
ParseExpression ==
    /\ lerr = NoError /\ lexpr = NoExpr /\ lpos > Len(source)
    /\ LET expr_ast == parse_expression(ltokens, 1)
       IN IF expr_ast.ok
          THEN lexpr' = expr_ast.v /\ lerr' = lerr
          ELSE lerr' = expr_ast.err /\ lexpr' = lexpr
    /\ UNCHANGED <<source, lpos, ltokens, pvars, ivars, ovars>>

NextLex == LexStep \/ ParseExpression

SpecLex == InitLex /\ [][NextLex]_vars

\* lexing and parsing of the text have ended
LexParseEnded == lerr # NoError \/ lexpr # NoExpr

\* C16 as stated: lexing and parsing the display rendering of a literal value
\* of kind number, boolean, date, datetime, time, duration or size yields
\* that value again, of the same kind.
C16_LiteralRoundTrip ==
    \A v \in LiteralValues :
        (source = display(v, FALSE) /\ LexParseEnded) => (lerr = NoError /\ lexpr = v)

\* the source was lexed as one plain string literal
LexedString ==
    /\ lerr = NoError /\ lpos > Len(source)
    /\ Len(ltokens) = 1 /\ ltokens[1].type = "STRING"

\* the content scanned from the left, each escape sequence \n, \t, \" and \\
\* replaced by newline, tab, double quote and backslash
RECURSIVE ScanDecode(_)
ScanDecode(content) ==
    IF Len(content) >= 2 /\ content[1] = BS /\ content[2] \in {"n", "t", DQ, BS}
    THEN <<escape_map(content[2])>> \o ScanDecode(SubSeq(content, 3, Len(content)))
    ELSE IF content = <<>> THEN <<>>
    ELSE <<Head(content)>> \o ScanDecode(Tail(content))

\* the text the same content gives inside an interpolated string
InterpolatedDecoding(value) ==
    LET parts == interpolated_parts(value, 2, <<>>, <<>>).v
    IN str_join(<<>>, [i \in 1..Len(parts) |-> parts[i].value])

\* C17 as stated: the value of a plain string literal is its content scanned
\* left to right with the four escape sequences replaced, and it is the text
\* the same content gives inside an interpolated string.
C17_StringDecoding ==
    LexedString =>
        /\ ltokens[1].value = StrV(ScanDecode(SubSeq(source, 2, Len(source) - 1)))
        /\ ltokens[1].value = StrV(InterpolatedDecoding(source))

====
